---- MODULE Spec2Model ----
(***************************************************************************)
(* Rate-limit interceptor of middleware/ratelimit.go.                      *)
(*                                                                         *)
(* Every inbound call runs in its own goroutine (gRPC serves one goroutine *)
(* per in-flight call); the goroutines share one RateLimiter: a map from   *)
(* key to *rate.Limiter behind a sync.RWMutex.  Each limiter is a token    *)
(* bucket of golang.org/x/time/rate: Allow() reads time.Now() and then     *)
(* runs reserveN under the limiter's own mutex.                            *)
(*                                                                         *)
(* Units.  Time is in nanoseconds (time.Duration).  A token count is a     *)
(* float64, as in the library: every operation on it yields the float64    *)
(* nearest to the exact result, ties to even, each operation rounded on    *)
(* its own (no fused multiply-add).                                        *)
(***************************************************************************)
EXTENDS Integers, Sequences, FiniteSets

\* ---- bounds of the model ----
MaxCalls == 3

\* the calls given to the server one of the mains has assembled
MaxServed == 2

\* time.Second, in nanoseconds
Second == 1000000000

\* ---- state ----

VARIABLES
    config,      \* RateLimiter.config
    limiters,    \* RateLimiter.limiters: key -> index into heap (0: no entry)
    heap,        \* the rate.Limiter objects constructed so far
    writer,      \* RateLimiter.mutex: goroutine holding or waiting for Lock (0: none)
    readers,     \* RateLimiter.mutex: goroutines holding RLock
    now,         \* wall clock
    pc,          \* position of each goroutine in the interceptor
    frame,       \* locals of each goroutine's current call
    started,     \* number of calls started so far
    exceeded,    \* rate_limit_exceeded counter, by <<method, key>>
    history,     \* per limiter: key, construction instant, decisions taken
    args,        \* argument of the function under evaluation
    result,      \* the values it has returned
    server,      \* the gRPC server: its Config and its interceptor chain
    rpc,         \* per goroutine: the call as the server and its caller see it
    metrics,     \* the Prometheus collectors of MetricsInterceptor
    database,    \* a call of NewDatabaseWithContext: its locals and position
    userServer   \* the in-memory UserServer and the goroutines calling it

vars == <<config, limiters, heap, writer, readers, now, pc, frame, started,
          exceeded, history, args, result, server, rpc, metrics, database,
          userServer>>

\* the variables of the evaluation of a function on its own
eval == <<args, result>>

\* ---- package error ----

\* the CodeErr constants: iota + 100
ErrOK == 100
ErrCancelled == 101
ErrUnknown == 102
ErrInvalidArgument == 103
ErrDeadlineExceeded == 104
ErrNotFound == 105
ErrAlreadyExists == 106
ErrPermissionDenied == 107
ErrResourceExhausted == 108
ErrFailedPrecondition == 109
ErrAborted == 110
ErrOutOfRange == 111
ErrUnimplemented == 112
ErrInternalServer == 113
ErrUnavailable == 114
ErrDataLoss == 115
ErrUnauthenticated == 116
ErrUserNotFound == 117
ErrUserEmailExists == 118
ErrInvalidUserData == 119
ErrUserCreationFailed == 120
ErrUserUpdateFailed == 121
ErrUserDeletionFailed == 122

CodeErrEntity(code, status, grpcCode, message) ==
    [Code |-> code, Status |-> status, GrpcCode |-> grpcCode,
     Message |-> message]

internalServerError ==
    CodeErrEntity("ERR500P00", 500, "Internal", "internal server error")

\* the keys of codeErrMap (ErrOK has no entry)
codeErrKeys == ErrCancelled..ErrUserDeletionFailed

\* the composite literal codeErrMap is declared with
codeErrMapLiteral == [c \in codeErrKeys |->
    CASE c = ErrInternalServer -> internalServerError
      [] c = ErrCancelled -> CodeErrEntity("ERR499P01", 499, "Canceled", "request cancelled")
      [] c = ErrUnknown -> CodeErrEntity("ERR500P02", 500, "Unknown", "unknown error")
      [] c = ErrInvalidArgument -> CodeErrEntity("ERR400P03", 400, "InvalidArgument", "invalid argument")
      [] c = ErrDeadlineExceeded -> CodeErrEntity("ERR504P04", 504, "DeadlineExceeded", "deadline exceeded")
      [] c = ErrNotFound -> CodeErrEntity("ERR404P05", 404, "NotFound", "not found")
      [] c = ErrAlreadyExists -> CodeErrEntity("ERR409P06", 409, "AlreadyExists", "already exists")
      [] c = ErrPermissionDenied -> CodeErrEntity("ERR403P07", 403, "PermissionDenied", "permission denied")
      [] c = ErrResourceExhausted -> CodeErrEntity("ERR429P08", 429, "ResourceExhausted", "resource exhausted")
      [] c = ErrFailedPrecondition -> CodeErrEntity("ERR400P09", 400, "FailedPrecondition", "failed precondition")
      [] c = ErrAborted -> CodeErrEntity("ERR409P10", 409, "Aborted", "aborted")
      [] c = ErrOutOfRange -> CodeErrEntity("ERR400P11", 400, "OutOfRange", "out of range")
      [] c = ErrUnimplemented -> CodeErrEntity("ERR501P12", 501, "Unimplemented", "unimplemented")
      [] c = ErrUnavailable -> CodeErrEntity("ERR503P14", 503, "Unavailable", "service unavailable")
      [] c = ErrDataLoss -> CodeErrEntity("ERR500P15", 500, "DataLoss", "data loss")
      [] c = ErrUnauthenticated -> CodeErrEntity("ERR401P16", 401, "Unauthenticated", "unauthenticated")
      [] c = ErrUserNotFound -> CodeErrEntity("ERR404P17", 404, "NotFound", "user not found")
      [] c = ErrUserEmailExists -> CodeErrEntity("ERR409P18", 409, "AlreadyExists", "user with email already exists")
      [] c = ErrInvalidUserData -> CodeErrEntity("ERR400P19", 400, "InvalidArgument", "invalid user data")
      [] c = ErrUserCreationFailed -> CodeErrEntity("ERR500P20", 500, "Internal", "user creation failed")
      [] c = ErrUserUpdateFailed -> CodeErrEntity("ERR500P21", 500, "Internal", "user update failed")
      [] c = ErrUserDeletionFailed -> CodeErrEntity("ERR500P22", 500, "Internal", "user deletion failed")]

\* the entries of the user service
userServiceCodeErrMap == [c \in {ErrUserNotFound} |->
    CodeErrEntity("ERR404P18", 404, "NotFound", "user not found")]

\* InitUserServiceCode: every entry of userServiceCodeErrMap is written to
\* the map m
InitUserServiceCode(m) ==
    [c \in DOMAIN m \cup DOMAIN userServiceCodeErrMap |->
        IF c \in DOMAIN userServiceCodeErrMap THEN userServiceCodeErrMap[c]
        ELSE m[c]]

\* the package variable codeErrMap of the running program.  The init() of
\* the part_013 main calls InitUserServiceCode before main() runs; no other
\* code writes the map, and the other mains do not call it.
codeErrMap ==
    IF server.main = "part_013" THEN InitUserServiceCode(codeErrMapLiteral)
    ELSE codeErrMapLiteral

\* CodeErr.GetCodeErrEntity: a code without an entry has the internal entity
GetCodeErrEntity(c) ==
    IF c \in DOMAIN codeErrMap THEN codeErrMap[c] ELSE internalServerError

GetCode(c) == GetCodeErrEntity(c).Code
GetStatus(c) == GetCodeErrEntity(c).Status
GetMessage(c) == GetCodeErrEntity(c).Message

\* error values.  type is the dynamic type of the Go value; CodeErr is the
\* code of a CodeErr or of a *CodeErrWithContext; code is the gRPC code of a
\* status error; message is the text the value carries.
ErrorValue(type, codeErr, code, message) ==
    [type |-> type, CodeErr |-> codeErr, code |-> code, message |-> message]

NilErr == ErrorValue("nil", 0, "", "")

\* a CodeErr held in an error
AsError(c) == ErrorValue("CodeErr", c, "", "")

\* errors.New(text)
NewError(text) == ErrorValue("*errors.errorString", 0, "", text)

\* status.Error(c, msg): nil for codes.OK
StatusError(c, msg) ==
    IF c = "OK" THEN NilErr ELSE ErrorValue("*status.Error", 0, c, msg)

\* strconv of a digit
Digit(d) ==
    CASE d = 0 -> "0" [] d = 1 -> "1" [] d = 2 -> "2" [] d = 3 -> "3"
      [] d = 4 -> "4" [] d = 5 -> "5" [] d = 6 -> "6" [] d = 7 -> "7"
      [] d = 8 -> "8" [] d = 9 -> "9"

\* the decimal text of an integer, as the verb %d prints it
RECURSIVE Itoa(_)
Itoa(n) ==
    IF n < 0 THEN "-" \o Itoa(0 - n)
    ELSE IF n < 10 THEN Digit(n)
    ELSE Itoa(n \div 10) \o Digit(n % 10)

\* fmt.Sprintf.  A format is the sequence of its literal pieces and verbs; the
\* verbs %d and %s take the operands in order.
RECURSIVE Sprintf(_, _)
Sprintf(format, operands) ==
    IF format = <<>> THEN ""
    ELSE IF Head(format) = "%d"
         THEN Itoa(Head(operands)) \o Sprintf(Tail(format), Tail(operands))
    ELSE IF Head(format) = "%s"
         THEN Head(operands) \o Sprintf(Tail(format), Tail(operands))
    ELSE Head(format) \o Sprintf(Tail(format), operands)

\* WithMessage that keeps the custom message alone
WithMessageBare(c, format, operands) ==
    IF format # <<>>
    THEN ErrorValue("*CodeErrWithContext", c, "", Sprintf(format, operands))
    ELSE ErrorValue("*CodeErrWithContext", c, "", GetMessage(c))

\* CodeErr.WithMessage: the base message of the code, then the custom message
WithMessage(c, format, operands) ==
    IF format # <<>>
    THEN ErrorValue("*CodeErrWithContext", c, "",
                    Sprintf(<<"%s", ": ", "%s">>,
                            <<GetMessage(c), Sprintf(format, operands)>>))
    ELSE ErrorValue("*CodeErrWithContext", c, "", GetMessage(c))

\* err.Error()
Error(err) ==
    CASE err.type = "CodeErr" ->
            IF err.CodeErr \in DOMAIN codeErrMap
            THEN codeErrMap[err.CodeErr].Message
            ELSE internalServerError.Message
      [] err.type = "*CodeErrWithContext" -> err.message
      [] err.type = "*status.Error" ->
            Sprintf(<<"rpc error: code = ", "%s", " desc = ", "%s">>,
                    <<err.code, err.message>>)
      [] OTHER -> err.message

\* CodeErr.ToGRPCStatus and (*CodeErrWithContext).ToGRPCStatus
ToGRPCStatus(err) ==
    IF err.type = "*CodeErrWithContext"
    THEN StatusError(GetCodeErrEntity(err.CodeErr).GrpcCode, err.message)
    ELSE StatusError(GetCodeErrEntity(err.CodeErr).GrpcCode,
                     GetMessage(err.CodeErr))

\* IsErrorCode that looks at the message instead of the code
IsErrorCodeByMessage(err, code) == err.message = GetMessage(code)

\* IsErrorCode: err is the code itself, or wraps it
IsErrorCode(err, code) ==
    IF err.type = "CodeErr" /\ err.CodeErr = code THEN TRUE
    ELSE IF err.type = "*CodeErrWithContext" THEN err.CodeErr = code
    ELSE IF err.type = "CodeErr" THEN err.CodeErr = code
    ELSE FALSE

\* the goroutines serving inbound calls (0 stands for none of them)
Procs == {1, 2}
Methods == {"A", "B"}
Keys == Methods \cup {"global"}

\* a context.Context: the x-request-id values of its incoming metadata, its
\* value under RequestIDContextKey, the request_id field of the logger it
\* carries, and the x-request-id values of its outgoing metadata
Context(id, incoming, requestID, logger, outgoing) ==
    [id |-> id, incoming |-> incoming, requestID |-> requestID,
     logger |-> logger, outgoing |-> outgoing]

NoCtx == Context("none", <<>>, "", "", <<>>)

\* the inbound calls: info.FullMethod, ctx and req of each; the caller of the
\* second sends two x-request-id values
Inbound == {[method |-> "A", ctx |-> Context("c1", <<>>, "", "", <<>>),
             req |-> "q1"],
            [method |-> "B", ctx |-> Context("c2", <<"r1", "r2">>, "", "", <<>>),
             req |-> "q2"]}

\* the values uuid.New().String() can have
UUIDs == {"u1", "u2"}

\* what the wrapped handler may return: a response, or its own error
HandlerResults == {[resp |-> "resp", err |-> NilErr],
                   [resp |-> "nil", err |-> NewError("HandlerErr")]}

\* instants the wall clock can be observed at, in nanoseconds
Instants == {0, 333333333, 500000000}

\* (requestsPerSecond, burstSize) pairs handed to the constructors
RateSettings == {<<1, 1>>, <<2, 2>>, <<3, 1>>}

\* the zero time.Time of a limiter that has not admitted anything yet
ZeroTime == -1

Min(a, b) == IF a <= b THEN a ELSE b

\* ---- key extraction ----

\* a global extractor that keys by method
DefaultKeyExtractorByMethod(ctx, method) == method

DefaultKeyExtractor(ctx, method) == "global"

\* a per-method extractor that returns the constant key
MethodKeyExtractorConstant(ctx, method) == "global"

MethodKeyExtractor(ctx, method) == method

KeyExtractor(name, ctx, method) ==
    IF name = "Method" THEN MethodKeyExtractor(ctx, method)
    ELSE DefaultKeyExtractor(ctx, method)

\* ---- construction ----

\* NewRateLimiter that doubles the configured rate, not the effective one
NewRateLimiterRawBurst(cfg) ==
    LET ke  == IF cfg.KeyExtractor = "nil" THEN "Default" ELSE cfg.KeyExtractor
        rps == IF cfg.RequestsPerSecond <= 0 THEN 100 ELSE cfg.RequestsPerSecond
        bs  == IF cfg.BurstSize <= 0 THEN cfg.RequestsPerSecond * 2
               ELSE cfg.BurstSize
    IN [RequestsPerSecond |-> rps, BurstSize |-> bs, KeyExtractor |-> ke]

NewRateLimiter(cfg) ==
    LET ke  == IF cfg.KeyExtractor = "nil" THEN "Default" ELSE cfg.KeyExtractor
        rps == IF cfg.RequestsPerSecond <= 0 THEN 100 ELSE cfg.RequestsPerSecond
        bs  == IF cfg.BurstSize <= 0 THEN rps * 2 ELSE cfg.BurstSize
    IN [RequestsPerSecond |-> rps, BurstSize |-> bs, KeyExtractor |-> ke]

NewGlobalRateLimitInterceptor(requestsPerSecond, burstSize) ==
    NewRateLimiter([RequestsPerSecond |-> requestsPerSecond,
                    BurstSize |-> burstSize, KeyExtractor |-> "Default"])

NewPerMethodRateLimitInterceptor(requestsPerSecond, burstSize) ==
    NewRateLimiter([RequestsPerSecond |-> requestsPerSecond,
                    BurstSize |-> burstSize, KeyExtractor |-> "Method"])

\* ---- float64 ----

\* In this section a value that is used more than once is bound by ranging
\* over the set of one element that holds it (x \in {a}): TLC would compute
\* the argument of an operator, or the body of a LET, anew at each use.

\* Natural numbers beyond TLC's integers: the limbs of a number in base Base,
\* lowest first, without a leading zero limb (0 is the empty sequence).
Base == 32768

\* limb i of a, 0 beyond its ends
Limb(a, i) == IF 1 <= i /\ i <= Len(a) THEN a[i] ELSE 0

\* the function f on 1..n as a sequence, each of its values computed once
Limbs(f) == f \o <<>>

\* a without its leading zero limbs
RECURSIVE Trim(_)
Trim(a) ==
    CHOOSE r \in
       {IF x = <<>> \/ x[Len(x)] # 0 THEN x
        ELSE Trim(SubSeq(x, 1, Len(x) - 1)) : x \in {a}} : TRUE

RECURSIVE NatOf(_)
NatOf(n) == IF n = 0 THEN <<>> ELSE <<n % Base>> \o NatOf(n \div Base)

RECURSIVE IntOf(_)
IntOf(a) == IF a = <<>> THEN 0 ELSE a[1] + Base * IntOf(Tail(a))

Longer(a, b) == IF Len(a) < Len(b) THEN Len(b) ELSE Len(a)

\* a + b.  A carry enters limb i when a limb below it overflows and every
\* limb between the two is full.
NatAdd(a, b) ==
    CHOOSE r \in
       {Trim(Limbs([i \in 1..(Len(s) + 1) |->
                (Limb(s, i)
                   + (IF \E j \in 1..(i - 1) :
                            /\ s[j] >= Base
                            /\ \A k \in (j + 1)..(i - 1) : s[k] = Base - 1
                      THEN 1 ELSE 0)) % Base])) :
           s \in {Limbs([i \in 1..Longer(x, y) |-> Limb(x, i) + Limb(y, i)]) :
                     x \in {a}, y \in {b}}} : TRUE

\* a - b, for b <= a.  Limb i lends one when a limb below it is short and
\* every limb between the two is empty.
NatSub(a, b) ==
    CHOOSE r \in
       {Trim(Limbs([i \in 1..Len(s) |->
                (s[i]
                   - (IF \E j \in 1..(i - 1) :
                            /\ s[j] < 0
                            /\ \A k \in (j + 1)..(i - 1) : s[k] = 0
                      THEN 1 ELSE 0)) % Base])) :
           s \in {Limbs([i \in 1..Longer(x, y) |-> Limb(x, i) - Limb(y, i)]) :
                     x \in {a}, y \in {b}}} : TRUE

NatLess(a, b) ==
    \E x \in {a}, y \in {b} :
       \/ Len(x) < Len(y)
       \/ /\ Len(x) = Len(y)
          /\ \E i \in 1..Len(x) :
                /\ x[i] < y[i]
                /\ \A j \in (i + 1)..Len(x) : x[j] = y[j]

\* a * c, for 0 <= c < Base: the low halves of the limbs' products plus
\* their high halves one limb up
MulSmall(a, c) ==
    CHOOSE r \in
       {NatAdd(Limbs([i \in 1..Len(p) |-> p[i] % Base]),
               Limbs([i \in 1..(Len(p) + 1) |-> Limb(p, i - 1) \div Base])) :
           p \in {Limbs([i \in 1..Len(x) |-> x[i] * c]) : x \in {a}}} : TRUE

\* <<quotient, remainder>> of (r * Base^i + a[1..i]) by c, for 0 < c < Base
\* and r < c
RECURSIVE DivFrom(_, _, _, _)
DivFrom(a, c, i, r) ==
    IF i = 0 THEN <<<<>>, r>>
    ELSE CHOOSE d \in
            {<<nr[2][1] \o <<nr[1] \div c>>, nr[2][2]>> :
                nr \in {<<n, DivFrom(a, c, i - 1, n % c)>> :
                           n \in {r * Base + a[i]}}} : TRUE

\* <<a \div c, a % c>>, for 0 < c < Base
DivSmall(a, c) ==
    CHOOSE d \in
       {<<Trim(qr[1]), qr[2]>> :
           qr \in {DivFrom(x, c, Len(x), 0) : x \in {a}}} : TRUE

\* a * 2^k
Shl(a, k) ==
    CHOOSE r \in
       {IF x = <<>> \/ k = 0 THEN x
        ELSE [i \in 1..(k \div 15) |-> 0]
                \o Trim(Limbs([i \in 1..(Len(x) + 1) |->
                      ((Limb(x, i) * s) % Base)
                         + (Limb(x, i - 1) \div (Base \div s))])) :
           x \in {a}, s \in {2 ^ (k % 15)}} : TRUE

\* a \div 2^k
Shr(a, k) ==
    CHOOSE r \in
       {IF k = 0 THEN x
        ELSE IF Len(x) <= w THEN <<>>
        ELSE Trim(Limbs([i \in 1..(Len(x) - w) |->
                     (x[i + w] \div s)
                        + ((Limb(x, i + w + 1) % s) * (Base \div s))])) :
           x \in {a}, w \in {k \div 15}, s \in {2 ^ (k % 15)}} : TRUE

\* the number of binary digits of a limb v > 0
Width(v) ==
    IF v < 128
    THEN IF v < 8 THEN (IF v < 2 THEN 1 ELSE IF v < 4 THEN 2 ELSE 3)
         ELSE IF v < 32 THEN (IF v < 16 THEN 4 ELSE 5)
         ELSE IF v < 64 THEN 6 ELSE 7
    ELSE IF v < 2048
         THEN IF v < 512 THEN (IF v < 256 THEN 8 ELSE 9)
              ELSE IF v < 1024 THEN 10 ELSE 11
         ELSE IF v < 8192 THEN (IF v < 4096 THEN 12 ELSE 13)
         ELSE IF v < 16384 THEN 14 ELSE 15

\* the number of binary digits of a
BitLen(a) ==
    CHOOSE len \in
       {IF x = <<>> THEN 0 ELSE 15 * (Len(x) - 1) + Width(x[Len(x)]) :
           x \in {a}} : TRUE

\* the number of zero binary digits a ends with, for a > 0
TrailingZeros(a) ==
    CHOOSE z \in
       {IF xi[2] = 1 /\ xi[1][1] % 2 = 1 THEN 0
        ELSE 15 * (xi[2] - 1)
           + (CHOOSE k \in 0..14 :
                 /\ xi[1][xi[2]] % (2 ^ k) = 0
                 /\ (xi[1][xi[2]] \div (2 ^ k)) % 2 = 1) :
           xi \in {<<x, CHOOSE i \in 1..Len(x) :
                           x[i] # 0 /\ \A j \in 1..(i - 1) : x[j] = 0>> :
                      x \in {a}}} : TRUE

\* a is not a multiple of 2^k, for a k below the number of a's digits
Below(a, k) ==
    \E x \in {a} :
       \/ \E i \in 1..(k \div 15) : x[i] # 0
       \/ x[(k \div 15) + 1] % (2 ^ (k % 15)) # 0

\* binary digit i of a, the lowest being digit 0, for an i below the number
\* of a's digits
Bit(a, i) == (a[(i \div 15) + 1] \div (2 ^ (i % 15))) % 2 = 1

Odd(a) == \E x \in {a} : x # <<>> /\ x[1] % 2 = 1

\* A float64: (-1)^neg * m * 2^e with m a natural number of at most 53
\* binary digits, odd unless the value is zero.  Exponents stay far from the
\* limits of the format, so neither overflow nor subnormal numbers are
\* modelled; nor are the zero's sign, the infinities and the NaNs.
FZero == [neg |-> FALSE, m |-> <<>>, e |-> 0]

\* (-1)^neg * m * 2^e for an m of at most 53 digits
Canon(neg, m, e) ==
    CHOOSE f \in
       {IF xz[1] = <<>> THEN FZero
        ELSE [neg |-> neg, m |-> Shr(xz[1], xz[2]), e |-> e + xz[2]] :
           xz \in {<<x, IF x = <<>> THEN 0 ELSE TrailingZeros(x)>> :
                      x \in {m}}} : TRUE

\* the float64 nearest to (m + f) * 2^e, ties to even, where 0 <= f < 1 and
\* sticky tells whether f > 0; with sticky, m has at least 54 digits.  Of an
\* m of 53 + k digits the k lowest are dropped: the result is the next
\* mantissa up when the highest of them is set and either a lower one, or f,
\* or the lowest digit kept is.
Round(neg, m, e, sticky) ==
    CHOOSE f \in
       {IF xk[2] <= 0 THEN Canon(neg, xk[1], e)
        ELSE CHOOSE h \in
                {IF Bit(xk[1], xk[2] - 1)
                      /\ (sticky \/ Below(xk[1], xk[2] - 1) \/ Odd(q))
                 THEN Canon(neg, NatAdd(q, <<1>>), e + xk[2])
                 ELSE Canon(neg, q, e + xk[2]) :
                    q \in {Shr(xk[1], xk[2])}} : TRUE :
           xk \in {<<x, BitLen(x) - 53>> : x \in {m}}} : TRUE

FromInt(n) ==
    IF n < 0 THEN Canon(TRUE, NatOf(-n), 0) ELSE Canon(FALSE, NatOf(n), 0)

FNeg(x) ==
    CHOOSE f \in {IF u = FZero THEN u ELSE [u EXCEPT !.neg = ~u.neg] :
                     u \in {x}} : TRUE

\* u.m * 2^u.e and v.m * 2^v.e over one exponent: <<mantissa of u, mantissa
\* of v, exponent>>
Align(u, v) ==
    IF u.e < v.e THEN <<u.m, Shl(v.m, v.e - u.e), u.e>>
    ELSE <<Shl(u.m, u.e - v.e), v.m, v.e>>

\* x + y
FAdd(x, y) ==
    CHOOSE f \in
       {IF uv[1] = FZero THEN uv[2]
        ELSE IF uv[2] = FZero THEN uv[1]
        ELSE CHOOSE h \in
                {IF uv[1].neg = uv[2].neg
                 THEN Round(uv[1].neg, NatAdd(a[1], a[2]), a[3], FALSE)
                 ELSE IF a[1] = a[2] THEN FZero
                 ELSE IF NatLess(a[1], a[2])
                 THEN Round(uv[2].neg, NatSub(a[2], a[1]), a[3], FALSE)
                 ELSE Round(uv[1].neg, NatSub(a[1], a[2]), a[3], FALSE) :
                    a \in {Align(uv[1], uv[2])}} : TRUE :
           uv \in {<<u, v>> : u \in {x}, v \in {y}}} : TRUE

\* x - y
FSub(x, y) == FAdd(x, FNeg(y))

\* x < y
FLess(x, y) ==
    \E u \in {x}, v \in {y} :
       IF u.neg # v.neg THEN u.neg
       ELSE IF u = FZero THEN v # FZero
       ELSE IF v = FZero THEN u.neg
       ELSE \E a \in {Align(u, v)} :
               IF u.neg THEN NatLess(a[2], a[1]) ELSE NatLess(a[1], a[2])

\* x * float64(c), for 0 <= c < Base
FMulInt(x, c) ==
    CHOOSE f \in {IF u = FZero \/ c = 1 THEN u
                  ELSE Round(u.neg, MulSmall(u.m, c), u.e, FALSE) :
                     u \in {x}} : TRUE

\* x / float64(c), for 0 < c < Base: the mantissa is brought to 70 digits,
\* so that the quotient has at least 55
FDivInt(x, c) ==
    CHOOSE f \in
       {IF uk[1] = FZero \/ c = 1 THEN uk[1]
        ELSE CHOOSE h \in
                {Round(uk[1].neg, qr[1], uk[1].e - uk[2], qr[2] # 0) :
                    qr \in {DivSmall(Shl(uk[1].m, uk[2]), c)}} : TRUE :
           uk \in {<<u, 70 - BitLen(u.m)>> : u \in {x}}} : TRUE

\* x * float64(time.Second): 10^9 is 31250 * 32000
FMulSecond(x) ==
    CHOOSE f \in
       {IF u = FZero THEN u
        ELSE Round(u.neg, MulSmall(MulSmall(u.m, 31250), 32000), u.e,
                   FALSE) :
           u \in {x}} : TRUE

\* x / 1e9: 10^9 is 2^9 * 125 * 15625; the mantissa is brought to 76
\* digits, so that the quotient by 5^9 has at least 55
FDivSecond(x) ==
    CHOOSE f \in
       {IF uk[1] = FZero THEN uk[1]
        ELSE CHOOSE h \in
                {Round(uk[1].neg, pq[2][1], uk[1].e - uk[2] - 9,
                       pq[1][2] # 0 \/ pq[2][2] # 0) :
                    pq \in {<<p, DivSmall(p[1], 15625)>> :
                               p \in {DivSmall(Shl(uk[1].m, uk[2]), 125)}}} :
                   TRUE :
           uk \in {<<u, 76 - BitLen(u.m)>> : u \in {x}}} : TRUE

\* the integer conversion of x: towards zero
Trunc(x) ==
    CHOOSE n \in
       {IF ua[1].neg THEN -IntOf(ua[2]) ELSE IntOf(ua[2]) :
           ua \in {<<u, IF u.e >= 0 THEN Shl(u.m, u.e)
                        ELSE Shr(u.m, -u.e)>> : u \in {x}}} : TRUE

\* Duration.Seconds: float64(d / Second) + float64(d % Second) / 1e9
Seconds(d) == FAdd(FromInt(d \div Second), FDivSecond(FromInt(d % Second)))

\* ---- rate.Limiter ----

\* NewLimiter with a bucket one token short of the burst
NewLimiterShort(r, b) ==
    [limit |-> r, burst |-> b - 1, tokens |-> FromInt(b - 1),
     last |-> ZeroTime]

\* rate.NewLimiter(rate.Limit(r), b): a full bucket, last at the zero time
NewLimiter(r, b) ==
    [limit |-> r, burst |-> b, tokens |-> FromInt(b), last |-> ZeroTime]

\* Limit.tokensFromDuration: d.Seconds() * float64(limit)
tokensFromDuration(limit, d) == FMulInt(Seconds(d), limit)

\* Limit.durationFromTokens:
\* time.Duration((tokens / float64(limit)) * float64(time.Second))
durationFromTokens(limit, tokens) ==
    Trunc(FMulSecond(FDivInt(tokens, limit)))

\* Limiter.advance: the token count at t.  From the zero time the elapsed
\* duration saturates and the refill exceeds every burst; a t before last
\* counts as no elapsed time.  (tokens ranges over a set of one element, its
\* value: a LET would have TLC compute it anew at each use.)
advance(lim, t) ==
    IF lim.last = ZeroTime THEN FromInt(lim.burst)
    ELSE LET last    == IF t < lim.last THEN t ELSE lim.last
             elapsed == t - last
             delta   == tokensFromDuration(lim.limit, elapsed)
             burst   == FromInt(lim.burst)
         IN CHOOSE now_tokens \in
                {IF FLess(burst, tokens) THEN burst ELSE tokens :
                    tokens \in {FAdd(lim.tokens, delta)}} : TRUE

\* reserveN that writes the limiter back whether or not the reservation is ok
reserveNAlwaysWrites(lim, t) ==
    CHOOSE r \in
       {LET tokens       == at[2]
            waitDuration == IF FLess(tokens, FZero)
                            THEN durationFromTokens(lim.limit, FNeg(tokens))
                            ELSE 0
            ok           == 1 <= lim.burst /\ waitDuration <= 0
        IN [ok  |-> ok, avail |-> at[1],
            lim |-> [lim EXCEPT !.last = t, !.tokens = tokens]] :
          at \in {<<avail, FSub(avail, FromInt(1))>> :
                     avail \in {advance(lim, t)}}} : TRUE

\* Limiter.reserveN(t, 1, 0), as Allow calls it: the decision and the limiter
\* after it, with avail the token count advance has returned.  The state is
\* written only when the reservation is ok.
reserveN(lim, t) ==
    CHOOSE r \in
       {LET tokens       == at[2]
            waitDuration == IF FLess(tokens, FZero)
                            THEN durationFromTokens(lim.limit, FNeg(tokens))
                            ELSE 0
            ok           == 1 <= lim.burst /\ waitDuration <= 0
        IN [ok  |-> ok, avail |-> at[1],
            lim |-> IF ok THEN [lim EXCEPT !.last = t, !.tokens = tokens]
                    ELSE lim] :
          at \in {<<avail, FSub(avail, FromInt(1))>> :
                     avail \in {advance(lim, t)}}} : TRUE

\* an error conversion that knows the CodeErr type only
ErrorConversionCodeErrOnly(r) ==
    IF r.err # NilErr
    THEN IF r.err.type = "CodeErr"
         THEN [resp |-> r.resp, err |-> ToGRPCStatus(r.err)]
         ELSE [resp |-> r.resp, err |-> StatusError("Internal", Error(r.err))]
    ELSE [resp |-> r.resp, err |-> NilErr]

\* ErrorConversionInterceptor, error_conversion.go:15-27, with r what the
\* wrapped handler returned
ErrorConversionInterceptor(r) ==
    IF r.err # NilErr
    THEN IF r.err.type = "CodeErr"
         THEN [resp |-> r.resp, err |-> ToGRPCStatus(r.err)]
         ELSE IF r.err.type = "*CodeErrWithContext"
         THEN [resp |-> r.resp, err |-> ToGRPCStatus(r.err)]
         ELSE [resp |-> r.resp, err |-> StatusError("Internal", Error(r.err))]
    ELSE [resp |-> r.resp, err |-> NilErr]

\* ---- the server and its interceptor chain ----

\* config.Config, the rate-limit settings of it
Config(enabled, requestsPerSec, burstSize, strategy) ==
    [RateLimitEnabled |-> enabled, RateLimitRequestsPerSec |-> requestsPerSec,
     RateLimitBurstSize |-> burstSize, RateLimitStrategy |-> strategy]

\* the zero RateLimitConfig, of a server that has no rate limiter
NoRateLimiter ==
    [RequestsPerSecond |-> 0, BurstSize |-> 0, KeyExtractor |-> "nil"]

\* NewRateLimitInterceptors that does not look at RateLimitEnabled
NewRateLimitInterceptorsAlways(cfg) ==
    IF cfg.RateLimitStrategy = "per-method"
    THEN <<NewPerMethodRateLimitInterceptor(cfg.RateLimitRequestsPerSec,
                                            cfg.RateLimitBurstSize)>>
    ELSE <<NewGlobalRateLimitInterceptor(cfg.RateLimitRequestsPerSec,
                                         cfg.RateLimitBurstSize)>>

\* NewRateLimitInterceptors that installs the global limiter only for the
\* strategy "global"
NewRateLimitInterceptorsGlobalByName(cfg) ==
    IF ~cfg.RateLimitEnabled THEN <<>>
    ELSE IF cfg.RateLimitStrategy /= "global"
    THEN <<NewPerMethodRateLimitInterceptor(cfg.RateLimitRequestsPerSec,
                                            cfg.RateLimitBurstSize)>>
    ELSE <<NewGlobalRateLimitInterceptor(cfg.RateLimitRequestsPerSec,
                                         cfg.RateLimitBurstSize)>>

\* NewRateLimitInterceptors: the rate limiters to install, none when disabled
NewRateLimitInterceptors(cfg) ==
    IF ~cfg.RateLimitEnabled THEN <<>>
    ELSE IF cfg.RateLimitStrategy = "per-method"
    THEN <<NewPerMethodRateLimitInterceptor(cfg.RateLimitRequestsPerSec,
                                            cfg.RateLimitBurstSize)>>
    ELSE <<NewGlobalRateLimitInterceptor(cfg.RateLimitRequestsPerSec,
                                         cfg.RateLimitBurstSize)>>

\* the three main packages: src/main.go, src/unnamed/part_012 and
\* src/unnamed/part_013
Mains == {"main.go", "part_012", "part_013"}

\* part_012 loads no Config: the rate-limit settings in force in its server
\* are the literals of its runGRPCServer (part_012:55), a global limiter of
\* 100 requests a second and a burst of 200, installed unconditionally
Literals == Config(TRUE, 100, 200, "global")

\* runGRPCServer that installs the logging stage outside the rate limiter
runGRPCServerLoggingFirst(main, cfg) ==
    LET limiter == IF main = "part_012"
                   THEN <<NewGlobalRateLimitInterceptor(100, 200)>>
                   ELSE NewRateLimitInterceptors(cfg)
    IN [main    |-> main,
        cfg     |-> IF main = "part_012" THEN Literals ELSE cfg,
        limiter |-> limiter,
        chain   |-> <<"RequestID">>
                       \o (IF main = "part_012" THEN <<>> ELSE <<"Metrics">>)
                       \o <<"Logging">>
                       \o [i \in DOMAIN limiter |-> "RateLimit"]
                       \o (IF main = "part_013" THEN <<"ErrorConversion">>
                           ELSE <<>>)]

\* runGRPCServer of main.go (lines 125-146), of part_012 (lines 46-65) and of
\* part_013 (lines 131-138): the rate limiters constructed and the chain
\* handed to grpc.ChainUnaryInterceptor, outermost first.  main.go and
\* part_013 install the limiter their Config asks for, between Metrics and
\* Logging, and part_013 adds ErrorConversion; part_012 reads no Config and
\* installs RequestID, a global limiter of (100, 200) and Logging, with no
\* Metrics and no ErrorConversion stage.
runGRPCServer(main, cfg) ==
    LET limiter ==
           IF main = "part_012"
           THEN <<NewGlobalRateLimitInterceptor(100, 200)>>
           ELSE IF main = "part_013" THEN NewRateLimitInterceptors(cfg)
           ELSE IF cfg.RateLimitEnabled
                THEN IF cfg.RateLimitStrategy = "per-method"
                     THEN <<NewPerMethodRateLimitInterceptor(
                               cfg.RateLimitRequestsPerSec,
                               cfg.RateLimitBurstSize)>>
                     ELSE <<NewGlobalRateLimitInterceptor(
                               cfg.RateLimitRequestsPerSec,
                               cfg.RateLimitBurstSize)>>
                ELSE <<>>
    IN [main    |-> main,
        cfg     |-> IF main = "part_012" THEN Literals ELSE cfg,
        limiter |-> limiter,
        chain   |-> <<"RequestID">>
                       \o (IF main = "part_012" THEN <<>> ELSE <<"Metrics">>)
                       \o [i \in DOMAIN limiter |-> "RateLimit"]
                       \o <<"Logging">>
                       \o (IF main = "part_013" THEN <<"ErrorConversion">>
                           ELSE <<>>)]

\* the rate-limit interceptor installed on its own
Standalone(cfg, limiter) ==
    [main |-> "none", cfg |-> cfg, limiter |-> <<limiter>>,
     chain |-> <<"RateLimit">>]

\* position of the rate-limit stage in a chain (0: there is none)
RateLimitAt(chain) ==
    IF \E i \in DOMAIN chain : chain[i] = "RateLimit"
    THEN CHOOSE i \in DOMAIN chain : chain[i] = "RateLimit"
    ELSE 0

\* the stages around the rate-limit stage (all of them if there is none)
Outer(chain) ==
    IF RateLimitAt(chain) = 0 THEN chain
    ELSE SubSeq(chain, 1, RateLimitAt(chain) - 1)

\* the stages the rate-limit stage wraps
Inner(chain) ==
    IF RateLimitAt(chain) = 0 THEN <<>>
    ELSE SubSeq(chain, RateLimitAt(chain) + 1, Len(chain))

\* a RequestIDInterceptor that takes the last x-request-id value
RequestIDEnterLast(ctx, uuid) ==
    LET requestIDs == ctx.incoming
        requestID  == IF Len(requestIDs) = 0 THEN uuid
                      ELSE requestIDs[Len(requestIDs)]
    IN Context(ctx.id,
               IF Len(requestIDs) = 0 THEN <<requestID>> ELSE requestIDs,
               requestID, requestID, <<requestID>>)

\* RequestIDInterceptor, part_010:22-50: the context it hands to its handler,
\* with uuid what uuid.New() returns if it is called
RequestIDEnter(ctx, uuid) ==
    LET requestIDs == ctx.incoming
        requestID  == IF Len(requestIDs) = 0 THEN uuid ELSE requestIDs[1]
    IN Context(ctx.id,
               IF Len(requestIDs) = 0 THEN <<requestID>> ELSE requestIDs,
               requestID, requestID, <<requestID>>)

\* GetRequestID, part_010:72-77
GetRequestID(ctx) == ctx.requestID

\* the context a stage hands to the handler it wraps
StageEnter(stage, ctx, uuid) ==
    IF stage = "RequestID" THEN RequestIDEnter(ctx, uuid) ELSE ctx

\* the record of a stage that has run: it was entered, what it wraps ran, and
\* it was left
Around(stage, trace) == <<<<"enter", stage>>>> \o trace \o <<<<"leave", stage>>>>

\* what a stage returns, with ctx the context it handed to its handler and
\* reply what the handler returned: RequestIDInterceptor sets the response
\* header (part_010:59), ErrorConversionInterceptor converts the error, the
\* metrics, rate-limit and logging interceptors return resp and err as they
\* are
StageReturn(stage, ctx, reply) ==
    IF stage = "RequestID"
    THEN [reply EXCEPT !.header = <<GetRequestID(ctx)>>,
                       !.trace = Around(stage, @)]
    ELSE IF stage = "ErrorConversion"
    THEN LET c == ErrorConversionInterceptor([resp |-> reply.resp,
                                              err |-> reply.err])
         IN [reply EXCEPT !.resp = c.resp, !.err = c.err,
                          !.trace = Around(stage, @)]
    ELSE [reply EXCEPT !.trace = Around(stage, @)]

\* the context that leaves a run of stages entered with ctx
RECURSIVE Through(_, _, _)
Through(stages, ctx, uuid) ==
    IF stages = <<>> THEN ctx
    ELSE Through(Tail(stages), StageEnter(Head(stages), ctx, uuid), uuid)

\* what a run of stages entered with ctx returns, with reply what the handler
\* below them returned
RECURSIVE Return(_, _, _, _)
Return(stages, ctx, uuid, reply) ==
    IF stages = <<>> THEN reply
    ELSE LET c == StageEnter(Head(stages), ctx, uuid)
         IN StageReturn(Head(stages), c,
                        Return(Tail(stages), c, uuid, reply))

\* resp and err of a handler, the response header set so far, and the stages
\* that have run to produce them
Reply(r, trace) ==
    [resp |-> r.resp, err |-> r.err, header |-> <<>>, trace |-> trace]

\* grpc.Server: the status the caller receives for the error the chain
\* returned.  An error that is no status error is sent as codes.Unknown with
\* its text.
serverStatus(err) ==
    IF err = NilErr THEN [code |-> "OK", message |-> ""]
    ELSE IF err.type = "*status.Error"
    THEN [code |-> err.code, message |-> err.message]
    ELSE [code |-> "Unknown", message |-> Error(err)]

\* runtime.HTTPStatusFromCode of the gateway
HTTPStatusFromCode(code) ==
    CASE code = "OK" -> 200
      [] code = "Canceled" -> 499
      [] code = "Unknown" -> 500
      [] code = "InvalidArgument" -> 400
      [] code = "DeadlineExceeded" -> 504
      [] code = "NotFound" -> 404
      [] code = "AlreadyExists" -> 409
      [] code = "PermissionDenied" -> 403
      [] code = "Unauthenticated" -> 401
      [] code = "ResourceExhausted" -> 429
      [] code = "FailedPrecondition" -> 400
      [] code = "Aborted" -> 409
      [] code = "OutOfRange" -> 400
      [] code = "Unimplemented" -> 501
      [] code = "Internal" -> 500
      [] code = "Unavailable" -> 503
      [] code = "DataLoss" -> 500
      [] OTHER -> 500

\* a goroutine that serves no call
NoRPC ==
    [ctx |-> NoCtx, uuid |-> "", served |-> 0, sctx |-> NoCtx,
     out |-> Reply([resp |-> "nil", err |-> NilErr], <<>>),
     status |-> [code |-> "", message |-> ""]]

\* the call of a goroutine once the chain has returned: the service has been
\* invoked n more times with context sctx, and the stages around the
\* rate-limit stage return mid to the server
Returned(call, chain, n, sctx, mid) ==
    LET out == Return(Outer(chain), call.ctx, call.uuid, mid)
    IN [call EXCEPT !.served = @ + n, !.sctx = sctx, !.out = out,
                    !.status = serverStatus(out.err)]

\* stage is in the chain of the server
Installed(stage) == \E i \in DOMAIN server.chain : server.chain[i] = stage

\* ---- MetricsInterceptor ----

\* the collectors before any call: grpc_active_connections at 0 and
\* grpc_requests_total, summed over its method and status_code series, at 0
NoMetrics == [active |-> 0, total |-> 0]

\* MetricsInterceptor, part_008:57: grpcActiveConnections.Inc()
MetricsEnter(m) == [m EXCEPT !.active = @ + 1]

\* a MetricsInterceptor that counts only the calls that returned no error
MetricsRecordOnSuccess(m, err) ==
    IF err = NilErr THEN [m EXCEPT !.total = @ + 1] ELSE m

\* MetricsInterceptor, part_008:60-83, once its handler has returned err: the
\* series of the method and of the status code of err is incremented, for
\* whatever err is
MetricsRecord(m, err) == [m EXCEPT !.total = @ + 1]

\* MetricsInterceptor, part_008:58: the deferred grpcActiveConnections.Dec()
MetricsDec(m) == [m EXCEPT !.active = @ - 1]

\* ---- call frames ----

\* what the rate-limit stage, or the chain below MetricsInterceptor, hands up:
\* the reply, the number of times the service ran and the context it saw
Up(n, sctx, mid) == [n |-> n, sctx |-> sctx, mid |-> mid]

NoFrame ==
    [method |-> "none", ctx |-> NoCtx, req |-> "none", key |-> "none",
     limiter |-> 0, exists |-> FALSE, slow |-> FALSE, t |-> 0,
     decided |-> FALSE, ok |-> FALSE, hcalls |-> 0,
     harg |-> [ctx |-> NoCtx, req |-> "none"],
     hret |-> [resp |-> "nil", err |-> NilErr],
     ret |-> [resp |-> "nil", err |-> NilErr],
     up |-> <<>>]

\* a rejection with the code of an unavailable service
RateLimitErrorUnavailable(cfg) ==
    WithMessage(ErrUnavailable,
                <<"Rate limit exceeded. Maximum ", "%d",
                  " requests per second allowed.">>,
                <<cfg.RequestsPerSecond>>)

\* error2.ErrResourceExhausted.WithMessage(..., RequestsPerSecond)
RateLimitError(cfg) ==
    WithMessage(ErrResourceExhausted,
                <<"Rate limit exceeded. Maximum ", "%d",
                  " requests per second allowed.">>,
                <<cfg.RequestsPerSecond>>)


\* no call of NewDatabaseWithContext is under way
NoDatabase == [pc |-> "none"]

\* no UserServer has been constructed
NoUserServer == [pc |-> "none"]

\* a registry with no limiter, no call in flight, the clock at its origin
FreshRegistry ==
    /\ limiters = [k \in Keys |-> 0]
    /\ heap = <<>>
    /\ writer = 0
    /\ readers = {}
    /\ now = 0
    /\ pc = [p \in Procs |-> "idle"]
    /\ frame = [p \in Procs |-> NoFrame]
    /\ started = 0
    /\ exceeded = [mk \in Methods \X Keys |-> 0]
    /\ history = <<>>
    /\ rpc = [p \in Procs |-> NoRPC]
    /\ metrics = NoMetrics
    /\ database = NoDatabase

\* and no UserServer
Fresh ==
    /\ FreshRegistry
    /\ userServer = NoUserServer

Init ==
    /\ \E rb \in RateSettings, strategy \in {"global", "per-method"} :
          /\ config = IF strategy = "per-method"
                      THEN NewPerMethodRateLimitInterceptor(rb[1], rb[2])
                      ELSE NewGlobalRateLimitInterceptor(rb[1], rb[2])
          /\ server = Standalone(Config(TRUE, rb[1], rb[2], strategy), config)
    /\ Fresh
    /\ args = <<>>
    /\ result = <<>>

\* ---- the interceptor, one goroutine per call ----

\* ratelimit.go:87-89: a call arrives and its key is extracted
Call(p) ==
    /\ pc[p] \in {"idle", "done"}
    /\ started < MaxCalls
    /\ server.main = "none" \/ started < MaxServed
    /\ \E in \in Inbound, uuid \in UUIDs :
          LET generated == IF /\ \E i \in DOMAIN server.chain :
                                    server.chain[i] = "RequestID"
                              /\ Len(in.ctx.incoming) = 0
                           THEN uuid ELSE ""
              ctx       == Through(Outer(server.chain), in.ctx, generated)
          IN /\ rpc' = [rpc EXCEPT ![p] =
                          [NoRPC EXCEPT !.ctx = in.ctx, !.uuid = generated]]
             /\ frame' = [frame EXCEPT ![p] =
                   IF RateLimitAt(server.chain) # 0
                   THEN [NoFrame EXCEPT
                            !.method = in.method, !.ctx = ctx, !.req = in.req,
                            !.key = KeyExtractor(config.KeyExtractor, ctx,
                                                 in.method)]
                   ELSE [NoFrame EXCEPT
                            !.method = in.method, !.ctx = ctx,
                            !.req = in.req]]
    /\ started' = started + 1
    /\ pc' = [pc EXCEPT ![p] = IF RateLimitAt(server.chain) # 0 THEN "RLock"
                               ELSE "Handler"]
    /\ metrics' = IF Installed("Metrics") THEN MetricsEnter(metrics)
                  ELSE metrics
    /\ UNCHANGED <<eval, database, userServer,
                   server, config, limiters, heap, writer, readers,
                   now, exceeded, history>>

\* getLimiter, ratelimit.go:62-63: RLock (blocks while a writer holds or waits
\* for the mutex) and the map lookup
RLock(p) ==
    /\ pc[p] = "RLock"
    /\ writer = 0
    /\ readers' = readers \cup {p}
    /\ frame' = [frame EXCEPT ![p].limiter = limiters[frame[p].key],
                              ![p].exists = (limiters[frame[p].key] # 0)]
    /\ pc' = [pc EXCEPT ![p] = "RUnlock"]
    /\ UNCHANGED <<eval, database, userServer, metrics,
                   server, rpc, config, limiters, heap, writer, now,
                   started, exceeded, history>>

\* getLimiter, ratelimit.go:64-68: RUnlock; an existing limiter is returned
RUnlock(p) ==
    /\ pc[p] = "RUnlock"
    /\ readers' = readers \ {p}
    /\ pc' = [pc EXCEPT ![p] = IF frame[p].exists THEN "Now" ELSE "Lock"]
    /\ UNCHANGED <<eval, database, userServer, metrics,
                   server, rpc, config, limiters, heap, writer, now,
                   frame, started, exceeded, history>>

\* getLimiter, ratelimit.go:71: Lock takes the writer slot; new readers block
Lock(p) ==
    /\ pc[p] = "Lock"
    /\ writer = 0
    /\ writer' = p
    /\ frame' = [frame EXCEPT ![p].slow = TRUE]
    /\ pc' = [pc EXCEPT ![p] = "Locked"]
    /\ UNCHANGED <<eval, database, userServer, metrics,
                   server, rpc, config, limiters, heap, readers, now,
                   started, exceeded, history>>

\* getLimiter without the re-check under the write lock
getLimiterNoRecheck(reg, objs, key, cfg) ==
    [limiters |-> [reg EXCEPT ![key] = Len(objs) + 1],
     heap     |-> Append(objs, NewLimiter(cfg.RequestsPerSecond, cfg.BurstSize)),
     limiter  |-> Len(objs) + 1]

\* getLimiter that keeps one entry: making a limiter evicts the other keys
getLimiterEvicting(reg, objs, key, cfg) ==
    IF reg[key] # 0
    THEN [limiters |-> reg, heap |-> objs, limiter |-> reg[key]]
    ELSE [limiters |-> [k \in DOMAIN reg |->
                           IF k = key THEN Len(objs) + 1 ELSE 0],
          heap     |-> Append(objs, NewLimiter(cfg.RequestsPerSecond,
                                               cfg.BurstSize)),
          limiter  |-> Len(objs) + 1]

\* getLimiter, ratelimit.go:75-81 under the write lock: the registry, the
\* limiter objects and the limiter returned for key
getLimiterLocked(reg, objs, key, cfg) ==
    IF reg[key] # 0
    THEN [limiters |-> reg, heap |-> objs, limiter |-> reg[key]]
    ELSE [limiters |-> [reg EXCEPT ![key] = Len(objs) + 1],
          heap     |-> Append(objs, NewLimiter(cfg.RequestsPerSecond,
                                               cfg.BurstSize)),
          limiter  |-> Len(objs) + 1]

\* getLimiter, ratelimit.go:71-81: the write lock is held once the readers
\* have left; re-check, and construct the limiter if it is still missing
Locked(p) ==
    /\ pc[p] = "Locked"
    /\ writer = p
    /\ readers = {}
    /\ LET r == getLimiterLocked(limiters, heap, frame[p].key, config)
       IN /\ limiters' = r.limiters
          /\ heap' = r.heap
          /\ frame' = [frame EXCEPT ![p].limiter = r.limiter]
          /\ history' = IF Len(r.heap) > Len(heap)
                        THEN Append(history, [key |-> frame[p].key,
                                              createdAt |-> now,
                                              dec |-> <<>>])
                        ELSE history
    /\ pc' = [pc EXCEPT ![p] = "Unlock"]
    /\ UNCHANGED <<eval, database, userServer, metrics,
                   server, rpc, config, writer, readers, now,
                   started, exceeded>>

\* getLimiter, ratelimit.go:72: the deferred Unlock
Unlock(p) ==
    /\ pc[p] = "Unlock"
    /\ writer' = 0
    /\ pc' = [pc EXCEPT ![p] = "Now"]
    /\ UNCHANGED <<eval, database, userServer, metrics,
                   server, rpc, config, limiters, heap, readers, now,
                   frame, started, exceeded, history>>

\* ratelimit.go:95, limiter.Allow(): time.Now() is read before the limiter's
\* mutex is taken
Now(p) ==
    /\ pc[p] = "Now"
    /\ frame' = [frame EXCEPT ![p].t = now]
    /\ pc' = [pc EXCEPT ![p] = "Reserve"]
    /\ UNCHANGED <<eval, database, userServer, metrics,
                   server, rpc, config, limiters, heap, writer,
                   readers, now, started, exceeded, history>>

\* a decision that waits for a token, as limiter.Wait would
ReserveWaits(p) ==
    /\ pc[p] = "Reserve"
    /\ \E id \in {frame[p].limiter} :
       \E r \in {reserveN(heap[id], now)} :
          /\ r.ok
          /\ heap' = [heap EXCEPT ![id] = r.lim]
          /\ frame' = [frame EXCEPT ![p].ok = r.ok, ![p].decided = TRUE]
          /\ history' = [history EXCEPT ![id].dec =
                           Append(@, [method |-> frame[p].method,
                                      t |-> now,
                                      avail |-> r.avail,
                                      ok |-> r.ok])]
          /\ pc' = [pc EXCEPT ![p] = "Handler"]
    /\ UNCHANGED <<eval, database, userServer, metrics,
                   server, rpc, config, limiters, writer, readers,
                   now, started, exceeded>>

\* ratelimit.go:95, limiter.Allow(): reserveN under the limiter's mutex
Reserve(p) ==
    /\ pc[p] = "Reserve"
    /\ \E id \in {frame[p].limiter} :
       \E r \in {reserveN(heap[id], frame[p].t)} :
          /\ heap' = [heap EXCEPT ![id] = r.lim]
          /\ frame' = [frame EXCEPT ![p].ok = r.ok, ![p].decided = TRUE]
          /\ history' = [history EXCEPT ![id].dec =
                           Append(@, [method |-> frame[p].method,
                                      t |-> frame[p].t,
                                      avail |-> r.avail,
                                      ok |-> r.ok])]
          /\ pc' = [pc EXCEPT ![p] = IF r.ok THEN "Handler" ELSE "Reject"]
    /\ UNCHANGED <<eval, database, userServer, metrics,
                   server, rpc, config, limiters, writer, readers,
                   now, started, exceeded>>

\* a rejection that falls through to the handler
RejectionFallsThrough(f, cfg) ==
    [NoFrame EXCEPT !.method = f.method, !.ctx = f.ctx, !.req = f.req,
                    !.key = f.key, !.decided = TRUE, !.ok = f.ok,
                    !.hcalls = f.hcalls + 1,
                    !.harg = [ctx |-> f.ctx, req |-> f.req],
                    !.hret = [resp |-> "resp", err |-> NilErr],
                    !.ret = [resp |-> "resp", err |-> NilErr]]

\* ratelimit.go:96-111: the rejection; what the interceptor returns, and how
\* often it has called the handler
Rejection(f, cfg) ==
    [NoFrame EXCEPT !.method = f.method, !.ctx = f.ctx, !.req = f.req,
                    !.key = f.key, !.decided = TRUE, !.ok = f.ok,
                    !.ret = [resp |-> "nil", err |-> RateLimitError(cfg)]]

\* a metric that counts a rejection under the global key, whatever its key
RecordRateLimitExceededGlobal(counter, method, key) ==
    [counter EXCEPT ![<<method, "global">>] = @ + 1]

\* metrics.RecordRateLimitExceeded: rateLimitExceeded.With(method, key).Inc()
RecordRateLimitExceeded(counter, method, key) ==
    [counter EXCEPT ![<<method, key>>] = @ + 1]

\* ratelimit.go:96-111: warning, metric, and the rate-limit error
Reject(p) ==
    /\ pc[p] = "Reject"
    /\ exceeded' = RecordRateLimitExceeded(exceeded, frame[p].method,
                                           frame[p].key)
    /\ LET f   == Rejection(frame[p], config)
           mid == StageReturn("RateLimit", frame[p].ctx, Reply(f.ret, <<>>))
       IN IF Installed("Metrics")
          THEN /\ frame' = [frame EXCEPT ![p] =
                              [f EXCEPT !.up = <<Up(0, NoCtx, mid)>>]]
               /\ rpc' = rpc
               /\ pc' = [pc EXCEPT ![p] = "Record"]
          ELSE /\ frame' = [frame EXCEPT ![p] = f]
               /\ rpc' = [rpc EXCEPT ![p] =
                            Returned(rpc[p], server.chain, 0, NoCtx, mid)]
               /\ pc' = [pc EXCEPT ![p] = "done"]
    /\ UNCHANGED <<eval, database, userServer, metrics,
                   server, config, limiters, heap, writer, readers,
                   now, started, history>>

\* a forward that wraps the handler's error
ForwardWrapsError(f, r) ==
    [NoFrame EXCEPT !.method = f.method, !.ctx = f.ctx, !.req = f.req,
                    !.key = f.key, !.decided = TRUE, !.ok = f.ok,
                    !.hcalls = f.hcalls + 1,
                    !.harg = [ctx |-> f.ctx, req |-> f.req],
                    !.hret = r,
                    !.ret = IF r.err = NilErr THEN r
                            ELSE [resp |-> "nil",
                                  err |-> StatusError("Internal", Error(r.err))]]

\* ratelimit.go:115: return handler(ctx, req), with r what the handler returns
Forward(f, r) ==
    [NoFrame EXCEPT !.method = f.method, !.ctx = f.ctx, !.req = f.req,
                    !.key = f.key, !.decided = TRUE, !.ok = f.ok,
                    !.hcalls = f.hcalls + 1,
                    !.harg = [ctx |-> f.ctx, req |-> f.req],
                    !.hret = r,
                    !.ret = r]

\* the wrapped handler has returned r: the stages inside the rate limiter
\* return, then the rate limiter, then the stages around it
Returns(p, r) ==
    /\    LET inner == Inner(server.chain)
              sctx  == Through(inner, frame[p].ctx, "")
              below == Return(inner, frame[p].ctx, "",
                              Reply(r, Around("Service", <<>>)))
              hret  == [resp |-> below.resp, err |-> below.err]
              f     == IF RateLimitAt(server.chain) # 0
                       THEN Forward(frame[p], hret) ELSE frame[p]
              mid   == IF RateLimitAt(server.chain) # 0
                       THEN StageReturn("RateLimit", frame[p].ctx,
                                        Reply(f.ret, below.trace))
                       ELSE below
          IN IF Installed("Metrics")
             THEN /\ frame' = [frame EXCEPT ![p] =
                                 [f EXCEPT !.up = <<Up(1, sctx, mid)>>]]
                  /\ rpc' = rpc
                  /\ pc' = [pc EXCEPT ![p] = "Record"]
             ELSE /\ frame' = [frame EXCEPT ![p] = f]
                  /\ rpc' = [rpc EXCEPT ![p] =
                               Returned(rpc[p], server.chain, 1, sctx, mid)]
                  /\ pc' = [pc EXCEPT ![p] = "done"]
    /\ UNCHANGED <<eval, database, metrics,
                   server, config, limiters, heap, writer, readers,
                   now, started, exceeded, history>>

\* ratelimit.go:114-115: the admitted call goes to the wrapped handler.
\* Where the server has no UserServer the handler is any: it returns one of
\* HandlerResults.
Handler(p) ==
    /\ pc[p] = "Handler"
    /\ userServer.pc = "none"
    /\ \E r \in HandlerResults : Returns(p, r)
    /\ UNCHANGED userServer

\* MetricsInterceptor, part_008:60-83: its handler has returned, the
\* grpc_requests_total series of the call is incremented
Record(p) ==
    /\ pc[p] = "Record"
    /\ metrics' = MetricsRecord(metrics, frame[p].up[1].mid.err)
    /\ pc' = [pc EXCEPT ![p] = "Dec"]
    /\ UNCHANGED <<eval, database, userServer, rpc, frame,
                   server, config, limiters, heap, writer, readers,
                   now, started, exceeded, history>>

\* MetricsInterceptor returns, part_008:85: the deferred Dec of the gauge
\* runs, the stages around it return and the caller has its reply
Leave(p) ==
    /\ pc[p] = "Dec"
    /\ metrics' = MetricsDec(metrics)
    /\ rpc' = [rpc EXCEPT ![p] =
                 Returned(rpc[p], server.chain, frame[p].up[1].n,
                          frame[p].up[1].sctx, frame[p].up[1].mid)]
    /\ pc' = [pc EXCEPT ![p] = "done"]
    /\ UNCHANGED <<eval, database, userServer, frame,
                   server, config, limiters, heap, writer, readers,
                   now, started, exceeded, history>>

\* the wall clock moves on
Tick ==
    /\ \E t \in Instants :
          /\ t > now
          /\ now' = t
    /\ UNCHANGED <<eval, database, userServer, metrics,
                   server, rpc, config, limiters, heap, writer,
                   readers, pc, frame, started, exceeded, history>>

Next ==
    \/ \E p \in Procs : Call(p)
    \/ \E p \in Procs : RLock(p)
    \/ \E p \in Procs : RUnlock(p)
    \/ \E p \in Procs : Lock(p)
    \/ \E p \in Procs : Locked(p)
    \/ \E p \in Procs : Unlock(p)
    \/ \E p \in Procs : Now(p)
    \/ \E p \in Procs : Reserve(p)
    \/ \E p \in Procs : Reject(p)
    \/ \E p \in Procs : Handler(p)
    \/ Tick

Spec == Init /\ [][Next]_vars

\* the steps of goroutine p from the entry of the interceptor to its return,
\* the wrapped handler apart
Interceptor(p) ==
    \/ RLock(p) \/ RUnlock(p) \/ Lock(p) \/ Locked(p) \/ Unlock(p)
    \/ Now(p) \/ Reserve(p) \/ Reject(p)

\* the goroutines run while the clock stands still
Serving == \E p \in Procs : Call(p) \/ Interceptor(p) \/ Handler(p)

\* the clock never moves, so no bucket is ever refilled; the scheduler runs
\* every goroutine that can take a step of the interceptor; the arrival of
\* calls and the wrapped handler are under no obligation
FairSpec ==
    Init /\ [][Serving]_vars /\ \A p \in Procs : WF_vars(Interceptor(p))

\* ---- the assembled server ----

\* the Config values the server is started with
Configs ==
    {Config(enabled, 1, 1, strategy) :
        enabled \in BOOLEAN, strategy \in {"global", "per-method"}}

\* the settings a main is started with: a Config loaded from the environment
\* for main.go and part_013, and for part_012, which loads none, its literals
ConfigsOf(main) == IF main = "part_012" THEN {Literals} ELSE Configs

\* ---- constructor and error conversion, evaluated on their own ----

\* the largest setting handed to NewRateLimiter
MaxSetting == 6

\* the RateLimitConfig values handed to NewRateLimiter
ConfigInputs ==
    {[RequestsPerSecond |-> r, BurstSize |-> b, KeyExtractor |-> k] :
        r \in (0 - 2)..MaxSetting, b \in (0 - 2)..MaxSetting,
        k \in {"nil", "Default", "Method"}}

NewRateLimiterInit ==
    /\ args \in ConfigInputs
    /\ config = args
    /\ server = Standalone(Config(TRUE, args.RequestsPerSecond,
                                  args.BurstSize, "global"), args)
    /\ result = <<>>
    /\ Fresh

\* NewRateLimiter(args): the limiter holds the effective configuration
NewRateLimiterCall ==
    /\ result = <<>>
    /\ config' = NewRateLimiter(args)
    /\ result' = <<NewRateLimiter(args)>>
    /\ UNCHANGED <<database, userServer, metrics,
                   args, limiters, heap, writer, readers, now, pc, frame,
                   started, exceeded, history, server, rpc>>

NewRateLimiterSpec == NewRateLimiterInit /\ [][NewRateLimiterCall]_vars

\* the outcomes a wrapped handler can have: any response with no error, a
\* CodeErr, a *CodeErrWithContext with or without a custom message, or an
\* error of another type
HandlerOutcomes ==
    LET codes == ErrOK..ErrUserDeletionFailed
        errs  == {NilErr}
                 \cup {AsError(c) : c \in codes}
                 \cup {WithMessage(c, <<>>, <<>>) : c \in codes}
                 \cup {WithMessage(c, <<"id ", "%d", " failed">>, <<7>>) :
                          c \in codes}
                 \cup {NewError("connection refused"),
                       StatusError("NotFound", "no such user")}
    IN {[resp |-> r, err |-> e] : r \in {"nil", "resp"}, e \in errs}

\* the interceptor in a program that has not called InitUserServiceCode, and
\* in part_013, the main that installs it
ErrorConversionInit ==
    /\ \E main \in {"none", "part_013"} :
          server = [main |-> main, cfg |-> Config(FALSE, 0, 0, "global"),
                    limiter |-> <<>>, chain |-> <<"ErrorConversion">>]
    /\ args \in HandlerOutcomes
    /\ config = NoRateLimiter
    /\ result = <<>>
    /\ Fresh

\* the interceptor returns, the wrapped handler having returned args
ErrorConversionCall ==
    /\ result = <<>>
    /\ result' = <<ErrorConversionInterceptor(args)>>
    /\ UNCHANGED <<database, userServer, metrics,
                   args, config, limiters, heap, writer, readers, now, pc,
                   frame, started, exceeded, history, server, rpc>>

ErrorConversionSpec == ErrorConversionInit /\ [][ErrorConversionCall]_vars

\* ---- the server's construction, over the values of RATE_LIMIT_STRATEGY ----

\* values of the RateLimitStrategy string: the two documented ones, the empty
\* string, and strings that are not a strategy
Strategies == {"global", "per-method", "", "per_method", "Per-Method", "other"}

\* the settings a main can be started with: every Config for the mains that
\* load one, and its literals for part_012
StrategyInputs ==
    {[main |-> main, cfg |-> Config(enabled, r, b, strategy)] :
        main \in Mains \ {"part_012"}, enabled \in BOOLEAN,
        r \in 1..MaxSetting, b \in 1..MaxSetting, strategy \in Strategies}
    \cup {[main |-> "part_012", cfg |-> Literals]}

StrategyInit ==
    /\ args \in StrategyInputs
    /\ config = NoRateLimiter
    /\ server = [main |-> args.main, cfg |-> args.cfg, limiter |-> <<>>,
                 chain |-> <<>>]
    /\ result = <<>>
    /\ Fresh

\* runGRPCServer builds the interceptor chain of the main args.main
StrategyCall ==
    /\ result = <<>>
    /\ server' = runGRPCServer(args.main, args.cfg)
    /\ config' = IF server'.limiter = <<>> THEN NoRateLimiter
                 ELSE server'.limiter[1]
    /\ result' = <<server'>>
    /\ UNCHANGED <<database, userServer, metrics,
                   args, limiters, heap, writer, readers, now, pc, frame,
                   started, exceeded, history, rpc>>

StrategySpec == StrategyInit /\ [][StrategyCall]_vars

\* ---- package database: NewDatabaseWithContext ----

MaxRetries == 3
MaxDelay == 2

\* 2^n, as math.Pow(2, n) for a small n >= 0
RECURSIVE Pow2(_)
Pow2(n) == IF n <= 0 THEN 1 ELSE 2 * Pow2(n - 1)

\* the outcomes of one connection attempt: gorm.Open, db.DB and Ping succeed,
\* or the first of them that fails returns an error
Attempts == {"ok", "open failed", "db.DB failed", "ping failed"}

\* the values of the retry settings of the Config
DatabaseConfigs ==
    {[DatabaseMaxRetries |-> n, DatabaseRetryDelay |-> d] :
        n \in (0 - 1)..MaxRetries, d \in 0..MaxDelay}

\* what NewDatabaseWithContext has returned: a db and an error, or a panic
NoReturn == [kind |-> "none"]
ReturnDB(db, err) == [kind |-> "return", db |-> db, err |-> err]
Panic(text) == [kind |-> "panic", text |-> text]

\* the backoff formula with the delay of every attempt the same
BackoffConstant(cfg, attempt) == cfg.DatabaseRetryDelay

\* the delay after the failed attempt, in seconds: time.Duration(
\* DatabaseRetryDelay) * time.Second * time.Duration(math.Pow(2, attempt-1));
\* the int64 nanosecond product is exact below 9223372036 seconds
Backoff(cfg, attempt) == cfg.DatabaseRetryDelay * Pow2(attempt - 1)

\* no gRPC server is serving: the state of a program that has built none
NoCalls ==
    /\ config = NoRateLimiter
    /\ server = [main |-> "main.go", cfg |-> Config(FALSE, 0, 0, "global"),
                 limiter |-> <<>>, chain |-> <<>>]
    /\ args = <<>>
    /\ result = <<>>
    /\ limiters = [k \in Keys |-> 0]
    /\ heap = <<>>
    /\ writer = 0
    /\ readers = {}
    /\ now = 0
    /\ pc = [p \in Procs |-> "idle"]
    /\ frame = [p \in Procs |-> NoFrame]
    /\ started = 0
    /\ exceeded = [mk \in Methods \X Keys |-> 0]
    /\ history = <<>>
    /\ rpc = [p \in Procs |-> NoRPC]
    /\ metrics = NoMetrics

\* the call begins: db and err are nil, attempt is 1, the context is live or
\* already cancelled
DatabaseInit ==
    /\ \E cfg \in DatabaseConfigs, cancelled \in BOOLEAN :
          database = [pc |-> "for", cfg |-> cfg, attempt |-> 1,
                      db |-> "nil", err |-> "nil", cancelled |-> cancelled,
                      cancelledAt |-> IF cancelled THEN <<"for", 1>>
                                      ELSE <<>>,
                      timer |-> "none", opens |-> <<>>, waits |-> <<>>,
                      ret |-> NoReturn]
    /\ NoCalls
    /\ userServer = NoUserServer

\* the variables a step of NewDatabaseWithContext leaves alone
serving == <<config, limiters, heap, writer, readers, now, pc, frame, started,
             exceeded, history, args, result, server, rpc, metrics,
             userServer>>

\* the context is cancelled, or its deadline passes
Cancel ==
    /\ database.pc \in {"for", "open", "backoff", "after"}
    /\ ~database.cancelled
    /\ database' = [database EXCEPT
                       !.cancelled = TRUE,
                       !.cancelledAt = <<database.pc, database.attempt>>]
    /\ UNCHANGED serving

\* the check that skips the look at the context
ForNoCheck ==
    /\ database.pc = "for"
    /\ database' =
          IF database.attempt > database.cfg.DatabaseMaxRetries
          THEN [database EXCEPT !.pc = "after"]
          ELSE [database EXCEPT !.pc = "open"]
    /\ UNCHANGED serving

\* the head of the loop: the loop ends when attempt exceeds
\* DatabaseMaxRetries; a cancelled context ends the call; otherwise the
\* attempt begins
For ==
    /\ database.pc = "for"
    /\ database' =
          IF database.attempt > database.cfg.DatabaseMaxRetries
          THEN [database EXCEPT !.pc = "after"]
          ELSE IF database.cancelled
          THEN [database EXCEPT
                   !.pc = "done",
                   !.ret = ReturnDB("nil",
                              "database connection cancelled: " \o "ctx.Err")]
          ELSE [database EXCEPT !.pc = "open"]
    /\ UNCHANGED serving

\* the end of a failed attempt: db is the handle gorm.Open built, err the
\* error of the attempt; before the last attempt the timer of the backoff is
\* started, after the last one the loop goes to its head
Failed(d, outcome) ==
    LET e == [d EXCEPT
                 !.db = "db",
                 !.err = outcome,
                 !.opens = Append(d.opens,
                                  [attempt |-> d.attempt, ok |-> FALSE])]
    IN IF d.attempt < d.cfg.DatabaseMaxRetries
       THEN [e EXCEPT !.pc = "backoff", !.timer = "running",
                      !.waits = Append(d.waits,
                                       [after |-> d.attempt,
                                        delay |-> Backoff(d.cfg, d.attempt),
                                        elapsed |-> FALSE])]
       ELSE [e EXCEPT !.pc = "for", !.attempt = d.attempt + 1]

\* one attempt: gorm.Open, db.DB and Ping; success leaves the loop
Open ==
    /\ database.pc = "open"
    /\ \E outcome \in Attempts :
          database' =
             IF outcome = "ok"
             THEN [database EXCEPT
                      !.pc = "after", !.db = "db", !.err = "nil",
                      !.opens = Append(database.opens,
                                       [attempt |-> database.attempt,
                                        ok |-> TRUE])]
             ELSE Failed(database, outcome)
    /\ UNCHANGED serving

\* the delay of the backoff elapses: time.After delivers
TimerFires ==
    /\ database.pc = "backoff"
    /\ database.timer = "running"
    /\ database' = [database EXCEPT
                       !.timer = "fired",
                       !.waits[Len(database.waits)].elapsed = TRUE]
    /\ UNCHANGED serving

\* the select of the backoff takes a ready case: the context's Done ends the
\* call, the timer starts the next turn of the loop
Select ==
    /\ database.pc = "backoff"
    /\ \/ /\ database.cancelled
          /\ database' =
                [database EXCEPT
                    !.pc = "done", !.timer = "none",
                    !.ret = ReturnDB("nil",
                               "database connection cancelled during retry: "
                                  \o "ctx.Err")]
       \/ /\ database.timer = "fired"
          /\ database' = [database EXCEPT
                             !.pc = "for", !.timer = "none",
                             !.attempt = database.attempt + 1]
    /\ UNCHANGED serving

\* the outcomes of what follows a loop that has left a connection: db.DB
\* fails, or the Ping of the configured pool fails, or both succeed
Tails == {"ok", "db.DB failed", "ping failed"}

\* what follows the loop, without the look at err
AfterIgnoresErr(d, tail) ==
    IF d.db = "nil"
    THEN Panic("invalid memory address or nil pointer dereference")
    ELSE IF tail = "db.DB failed"
    THEN ReturnDB("nil", "failed to get underlying sql.DB: " \o tail)
    ELSE IF tail = "ping failed"
    THEN ReturnDB("nil", "failed to ping database: " \o tail)
    ELSE ReturnDB("db", "nil")

\* what follows the loop, database.go:92-118: the error of the last attempt
\* is returned; db.DB is called on the db, a nil db included, and its error
\* returned; the pool is configured and pinged, and the error of the Ping
\* returned; otherwise the db is returned
After(d, tail) ==
    IF d.err /= "nil"
    THEN ReturnDB("nil",
            Sprintf(<<"failed to connect to database after ", "%d",
                      " attempts: ", "%s">>,
                    <<d.cfg.DatabaseMaxRetries, d.err>>))
    ELSE IF d.db = "nil"
    THEN Panic("invalid memory address or nil pointer dereference")
    ELSE IF tail = "db.DB failed"
    THEN ReturnDB("nil", "failed to get underlying sql.DB: " \o tail)
    ELSE IF tail = "ping failed"
    THEN ReturnDB("nil", "failed to ping database: " \o tail)
    ELSE ReturnDB("db", "nil")

\* the call ends
Finish ==
    /\ database.pc = "after"
    /\ \E tail \in Tails :
          database' = [database EXCEPT !.pc = "done",
                                       !.ret = After(database, tail)]
    /\ UNCHANGED serving

DatabaseNext == Cancel \/ For \/ Open \/ TimerFires \/ Select \/ Finish

DatabaseSpec == DatabaseInit /\ [][DatabaseNext]_vars

\* the call goes on as long as it has not returned; the clock goes on
DatabaseFairSpec ==
    DatabaseSpec /\ WF_vars(For \/ Open \/ TimerFires \/ Select \/ Finish)

\* ---- package service: the in-memory UserServer ----

MaxCreates == 3

\* the names of the users the callers create
Names == {"John", "Jane"}

\* the UserEntity a call builds; ref is the identity of the object
UserEntity(ref, id, name) == [ref |-> ref, Id |-> id, Name |-> name]

\* a goroutine that serves no call
NoCreate == [pc |-> "idle", name |-> "", user |-> <<>>, k |-> 0, n |-> 0]

\* NewUserServer: an empty map and nextID 1; no call is in flight, none has
\* returned
NewUserServer ==
    [pc |-> "serving", users |-> <<>>, nextID |-> 1,
     g |-> [p \in Procs |-> NoCreate], calls |-> 0, created |-> <<>>,
     got |-> <<>>, fatal |-> ""]

UserInit ==
    /\ userServer = NewUserServer
    /\ database = NoDatabase
    /\ NoCalls

\* the variables the UserServer leaves alone
elsewhere == <<config, limiters, heap, writer, readers, now, pc, frame,
               started, exceeded, history, args, result, server, rpc, metrics,
               database>>

\* the goroutines that have evaluated the key and are writing the map
Storing == {p \in Procs : userServer.g[p].pc = "store"}

\* a CreateUser call arrives and its goroutine builds the UserEntity with Id
\* read from s.nextID
CreateUser(p) ==
    /\ userServer.pc = "serving"
    /\ userServer.g[p].pc = "idle"
    /\ userServer.calls < MaxCreates
    /\ \E name \in Names :
          userServer' =
             [userServer EXCEPT
                 !.calls = @ + 1,
                 !.g[p] = [pc |-> "key", name |-> name,
                           user |-> UserEntity(userServer.calls + 1,
                                               userServer.nextID, name),
                           k |-> 0, n |-> 0]]
    /\ UNCHANGED elsewhere

\* the map after m[k] = v
Assign(m, k, v) == [i \in DOMAIN m \cup {k} |-> IF i = k THEN v ELSE m[i]]

\* s.users[s.nextID] = user, the evaluation of its key: s.nextID is read
\* again
Key(p) ==
    /\ userServer.pc = "serving"
    /\ userServer.g[p].pc = "key"
    /\ userServer' = [userServer EXCEPT !.g[p].k = userServer.nextID,
                                        !.g[p].pc = "store"]
    /\ UNCHANGED elsewhere

\* s.users[s.nextID] = user, the write of the map under the key read
Store(p) ==
    /\ userServer.pc = "serving"
    /\ userServer.g[p].pc = "store"
    /\ userServer' =
          [userServer EXCEPT
              !.users = Assign(userServer.users, userServer.g[p].k,
                               userServer.g[p].user),
              !.g[p].pc = "load"]
    /\ UNCHANGED elsewhere

\* two goroutines write the map at once and the runtime detects it: the
\* process ends
FatalWrites ==
    /\ userServer.pc = "serving"
    /\ Cardinality(Storing) > 1
    /\ userServer' = [userServer EXCEPT
                         !.pc = "fatal",
                         !.fatal = "fatal error: concurrent map writes"]
    /\ UNCHANGED elsewhere

\* a GetUser reads the map while a goroutine writes it and the runtime
\* detects it: the process ends
FatalRead ==
    /\ userServer.pc = "serving"
    /\ Storing /= {}
    /\ userServer' =
          [userServer EXCEPT
              !.pc = "fatal",
              !.fatal = "fatal error: concurrent map read and map write"]
    /\ UNCHANGED elsewhere

\* s.nextID++, its read
Load(p) ==
    /\ userServer.pc = "serving"
    /\ userServer.g[p].pc = "load"
    /\ userServer' = [userServer EXCEPT !.g[p].n = userServer.nextID,
                                        !.g[p].pc = "add"]
    /\ UNCHANGED elsewhere

\* s.nextID++, its write
Add(p) ==
    /\ userServer.pc = "serving"
    /\ userServer.g[p].pc = "add"
    /\ userServer' = [userServer EXCEPT !.nextID = userServer.g[p].n + 1,
                                        !.g[p].pc = "return"]
    /\ UNCHANGED elsewhere

\* the call returns the user it built
ReturnUser(p) ==
    /\ userServer.pc = "serving"
    /\ userServer.g[p].pc = "return"
    /\ userServer' =
          [userServer EXCEPT
              !.created = Append(@, userServer.g[p].user),
              !.g[p] = NoCreate]
    /\ UNCHANGED elsewhere

\* GetUser(id): the user stored under id, or the error that there is none
GetUser(id) ==
    IF id \in DOMAIN userServer.users
    THEN [id |-> id, user |-> userServer.users[id], err |-> "nil",
          after |-> Len(userServer.created)]
    ELSE [id |-> id, user |-> <<>>,
          err |-> Sprintf(<<"user with ID ", "%d", " not found">>, <<id>>),
          after |-> Len(userServer.created)]

\* a GetUser call for one of the ids a CreateUser can have returned
Get ==
    /\ userServer.pc = "serving"
    /\ \E id \in 1..MaxCreates :
          /\ userServer.got /= <<GetUser(id)>>
          /\ userServer' = [userServer EXCEPT !.got = <<GetUser(id)>>]
    /\ UNCHANGED elsewhere

UserNext ==
    \/ \E p \in Procs :
          \/ CreateUser(p) \/ Key(p) \/ Store(p)
          \/ Load(p) \/ Add(p) \/ ReturnUser(p)
    \/ FatalWrites
    \/ FatalRead
    \/ Get

UserSpec == UserInit /\ [][UserNext]_vars

\* ---- the assembled server, serving ----

\* one of the mains has built its server.  part_012 has registered the
\* UserServer that NewUserServer returns; main.go and part_013 register a
\* server that keeps its users in the database.
ServerInit ==
    /\ \E main \in Mains : \E cfg \in ConfigsOf(main) :
          /\ server = runGRPCServer(main, cfg)
          /\ config = IF server.limiter = <<>> THEN NoRateLimiter
                      ELSE server.limiter[1]
          /\ userServer = IF main = "part_012" THEN NewUserServer
                          ELSE NoUserServer
    /\ FreshRegistry
    /\ args = <<>>
    /\ result = <<>>

\* Behind the chain of part_012 the method "A" of the model is
\* UserService/CreateUser and the method "B" is UserService/GetUser.  What a
\* call returns goes to its caller through the chain: created and got, the
\* record of what the callers of a UserServer on its own have received, stay
\* as they are.

\* the name in the CreateUserRequest of an inbound call
NameIn(req) == IF req = "q1" THEN "John" ELSE "Jane"

\* UserService.go:27-37: the handler of the admitted call is CreateUser, which
\* builds the user of the request
ServeCreateUser(p) ==
    /\ pc[p] = "Handler"
    /\ frame[p].method = "A"
    /\ CreateUser(p)
    /\ userServer'.g[p].name = NameIn(frame[p].req)

\* UserService.go:42-44: CreateUser returns the user it built, and the stages
\* around the handler return
ServeCreated(p) ==
    /\ pc[p] = "Handler"
    /\ userServer.pc = "serving"
    /\ userServer.g[p].pc = "return"
    /\ userServer' = [userServer EXCEPT !.g[p] = NoCreate]
    /\ Returns(p, [resp |-> "resp", err |-> NilErr])

\* UserService.go:47-56: the handler of the admitted call is GetUser
ServeGetUser(p) ==
    /\ pc[p] = "Handler"
    /\ frame[p].method = "B"
    /\ userServer.pc = "serving"
    /\ \E id \in 1..MaxCreates :
          Returns(p, IF GetUser(id).err = "nil"
                     THEN [resp |-> "resp", err |-> NilErr]
                     ELSE [resp |-> "nil", err |-> NewError(GetUser(id).err)])
    /\ UNCHANGED userServer

\* the runtime has detected a concurrent access of the map: the process
\* ends, and every goroutine with it
Exit(text) ==
    /\ userServer' = [userServer EXCEPT !.pc = "fatal", !.fatal = text]
    /\ pc' = [p \in Procs |-> "exit"]
    /\ UNCHANGED <<config, limiters, heap, writer, readers, now, frame,
                   started, exceeded, history, args, result, server, rpc,
                   metrics, database>>

\* two goroutines write the map at once
ServeFatalWrites ==
    /\ userServer.pc = "serving"
    /\ Cardinality(Storing) > 1
    /\ Exit("fatal error: concurrent map writes")

\* a GetUser reads the map while a CreateUser writes it
ServeFatalRead ==
    /\ userServer.pc = "serving"
    /\ Storing /= {}
    /\ \E p \in Procs : pc[p] = "Handler" /\ frame[p].method = "B"
    /\ Exit("fatal error: concurrent map read and map write")

\* the steps of the assembled server: those of the interceptor, the two of
\* MetricsInterceptor on the way back, and those of the UserServer behind
\* the chain
ServerNext ==
    \/ Next
    \/ \E p \in Procs : Record(p)
    \/ \E p \in Procs : Leave(p)
    \/ \E p \in Procs : ServeCreateUser(p)
    \/ \E p \in Procs : Key(p)
    \/ \E p \in Procs : Store(p)
    \/ \E p \in Procs : Load(p)
    \/ \E p \in Procs : Add(p)
    \/ \E p \in Procs : ServeCreated(p)
    \/ \E p \in Procs : ServeGetUser(p)
    \/ ServeFatalWrites
    \/ ServeFatalRead

ServerSpec == ServerInit /\ [][ServerNext]_vars

TypeOK ==
    /\ limiters \in [Keys -> 0..Len(heap)]
    /\ Len(history) = Len(heap)
    /\ now \in Instants
    /\ writer \in Procs \cup {0}
    /\ readers \subseteq Procs

\* ---- helpers of the properties ----

Limiters == DOMAIN heap

\* goroutines that have left getLimiter with a limiter in hand
Holding(p) == pc[p] \in {"Unlock", "Now", "Reserve"}
              \/ (pc[p] = "RUnlock" /\ frame[p].exists)

\* number of admitted decisions among dec[i..j]
Admitted(dec, i, j) == Cardinality({n \in i..j : dec[n].ok})

\* dec[i..j] were all taken at one instant
SameInstant(dec, i, j) == \A n \in i..j : dec[n].t = dec[i].t

\* whole tokens in a token count
Whole(tokens) == IF tokens.neg THEN 0 ELSE Trunc(tokens)

\* the decisions dec[i..] are those of a bucket lim that sees only these calls
RECURSIVE Replays(_, _, _)
Replays(lim, dec, i) ==
    IF i > Len(dec) THEN TRUE
    ELSE LET r == reserveN(lim, dec[i].t)
         IN /\ r.ok = dec[i].ok
            /\ advance(lim, dec[i].t) = dec[i].avail
            /\ Replays(r.lim, dec, i + 1)

\* the step is goroutine p's Reserve
Reserves(p) == pc[p] = "Reserve" /\ pc'[p] # "Reserve"

\* ---- properties ----

\* C1: however the lookups of concurrent callers interleave, a key has had at
\* most one limiter constructed for it, and every caller that has left
\* getLimiter holds the limiter the registry maps its key to.
C1_OneLimiterPerKey ==
    /\ \A k \in Keys :
          Cardinality({id \in Limiters : history[id].key = k}) <= 1
    /\ \A p \in Procs :
          Holding(p) =>
             /\ frame[p].limiter # 0
             /\ frame[p].limiter = limiters[frame[p].key]
             /\ history[frame[p].limiter].key = frame[p].key

\* two callers both missed the key under the read lock, both went through the
\* write lock, and both hold a limiter
C1_Witness ==
    \E p, q \in Procs :
       /\ p # q
       /\ frame[p].slow /\ frame[q].slow
       /\ frame[p].key = frame[q].key
       /\ pc[p] \in {"Now", "Reserve"} /\ pc[q] \in {"Now", "Reserve"}
       /\ frame[p].limiter # 0 /\ frame[q].limiter # 0

\* C2: a limiter starts full: while no time has passed since it was made, of
\* the decisions taken on it exactly the first BurstSize are admissions.
C2_StartsFull ==
    \A id \in Limiters :
       history[id].createdAt = now =>
          \A i \in DOMAIN history[id].dec :
             history[id].dec[i].ok <=> i <= config.BurstSize

\* BurstSize + 1 decisions at the instant of construction
C2_Witness ==
    \E id \in Limiters :
       /\ history[id].createdAt = now
       /\ Len(history[id].dec) = config.BurstSize + 1
       /\ ~history[id].dec[config.BurstSize + 1].ok

\* C3: callers that decide on one limiter at one instant, the bucket holding k
\* whole tokens at the first of them: of N such callers min(N, k) are admitted.
C3_Serializable ==
    \A id \in Limiters :
       LET dec == history[id].dec
       IN \A i, j \in DOMAIN dec :
             i <= j /\ SameInstant(dec, i, j) =>
                Admitted(dec, i, j) = Min(j - i + 1, Whole(dec[i].avail))

\* C4: an admitted call lowers the token count of its limiter at the call's
\* instant by one token, and a rejected call leaves it as it was.
C4_ConsumesOne ==
    [][\A p \in Procs :
          Reserves(p) =>
             LET id == frame[p].limiter
                 t  == frame[p].t
             IN advance(heap'[id], t) =
                   IF frame'[p].ok
                   THEN FSub(advance(heap[id], t), FromInt(1))
                   ELSE advance(heap[id], t)]_vars

\* a limiter that has admitted a call and has rejected one
C4_Witness ==
    \E id \in Limiters :
       \E i, j \in DOMAIN history[id].dec :
          history[id].dec[i].ok /\ ~history[id].dec[j].ok

\* C5: a bucket drained to no tokens at t0 and left idle until t0 + dt: a
\* burst of N calls at t0 + dt has min(N, BurstSize, floor(dt * R)) admitted.
C5_Refill ==
    \A id \in Limiters :
       LET dec == history[id].dec
       IN \A i, j \in DOMAIN dec :
             /\ i < j
             /\ dec[i].ok /\ dec[i].avail = FromInt(1)
             /\ SameInstant(dec, i + 1, j)
             /\ dec[j].t >= dec[i].t
             => Admitted(dec, i + 1, j) =
                   Min(j - i,
                       Min(config.BurstSize,
                           ((dec[j].t - dec[i].t) * config.RequestsPerSecond)
                              \div Second))

\* C6: every bucket holds between 0 and BurstSize tokens, at rest and at any
\* instant a call can observe.
C6_Bounded ==
    \A id \in Limiters :
       /\ ~FLess(heap[id].tokens, FZero)
       /\ ~FLess(FromInt(config.BurstSize), heap[id].tokens)
       /\ ~FLess(advance(heap[id], now), FZero)
       /\ ~FLess(FromInt(config.BurstSize), advance(heap[id], now))

\* C7: distinct keys have distinct limiters, and the decisions of each limiter
\* are those of a bucket that sees the calls of its own key only; with the
\* per-method extractor the key of a call is its method.
C7_KeysIndependent ==
    /\ \A k1, k2 \in Keys :
          limiters[k1] # 0 /\ limiters[k1] = limiters[k2] => k1 = k2
    /\ \A id \in Limiters :
          /\ Replays(NewLimiter(config.RequestsPerSecond, config.BurstSize),
                     history[id].dec, 1)
          /\ config.KeyExtractor = "Method" =>
                \A i \in DOMAIN history[id].dec :
                   history[id].dec[i].method = history[id].key

\* per-method: method A is admitted and then rejected, and at that instant a
\* call of method B is admitted
C7_Witness ==
    /\ config.KeyExtractor = "Method"
    /\ limiters["A"] # 0 /\ limiters["B"] # 0
    /\ LET a == history[limiters["A"]].dec
           b == history[limiters["B"]].dec
       IN /\ Len(a) = 2 /\ a[1].ok /\ ~a[2].ok
          /\ Len(b) = 1 /\ b[1].ok
          /\ a[1].t = now /\ a[2].t = now /\ b[1].t = now

\* C8: with the global extractor every call has the key "global", the
\* registry holds at most one limiter, and the calls of all methods draw on
\* it: at the instant it is made it admits BurstSize calls in all.
C8_GlobalShared ==
    config.KeyExtractor = "Default" =>
       /\ \A p \in Procs : frame[p].key \in {"none", "global"}
       /\ \A k \in Keys : limiters[k] # 0 => k = "global"
       /\ Len(heap) <= 1
       /\ \A id \in Limiters :
             history[id].createdAt = now =>
                Admitted(history[id].dec, 1, Len(history[id].dec))
                   = Min(Len(history[id].dec), config.BurstSize)

\* global: BurstSize calls of method A are admitted and a call of method B at
\* that instant is rejected
C8_Witness ==
    /\ config.KeyExtractor = "Default"
    /\ limiters["global"] # 0
    /\ LET dec == history[limiters["global"]].dec
       IN /\ Len(dec) = config.BurstSize + 1
          /\ \A i \in 1..config.BurstSize : dec[i].ok /\ dec[i].method = "A"
          /\ ~dec[Len(dec)].ok /\ dec[Len(dec)].method = "B"
          /\ \A i \in DOMAIN dec : dec[i].t = now

\* C9: a rejected call never reaches the handler, and the interceptor returns
\* a nil response with the rate-limit error.
C9_RejectedNotForwarded ==
    \A p \in Procs :
       frame[p].decided /\ ~frame[p].ok =>
          /\ frame[p].hcalls = 0
          /\ pc[p] = "done" =>
                frame[p].ret = [resp |-> "nil", err |-> RateLimitError(config)]

\* a rejected call has returned
C9_Witness ==
    \E p \in Procs : pc[p] = "done" /\ frame[p].decided /\ ~frame[p].ok

\* C10: an admitted call has the handler invoked once, with the call's own
\* context and request, and returns what the handler returned.
C10_AdmittedForwarded ==
    \A p \in Procs :
       pc[p] = "done" /\ frame[p].ok =>
          /\ frame[p].hcalls = 1
          /\ frame[p].harg = [ctx |-> frame[p].ctx, req |-> frame[p].req]
          /\ frame[p].hret \in HandlerResults
          /\ frame[p].ret = frame[p].hret

\* an admitted call whose handler failed has returned the handler's error
C10_Witness ==
    \E p \in Procs :
       /\ pc[p] = "done" /\ frame[p].ok
       /\ frame[p].ret = [resp |-> "nil", err |-> NewError("HandlerErr")]

\* goroutines whose call was rejected and has returned
Rejected(p) == pc[p] = "done" /\ frame[p].decided /\ ~frame[p].ok

\* C11: the error a rejected call returns is of the resource-exhausted kind:
\* the entity of its code has HTTP status 429, gRPC code ResourceExhausted and
\* the machine-readable code ERR429P08, and IsErrorCode recognises it as
\* ErrResourceExhausted and as no other code.
C11_ResourceExhaustedKind ==
    \A p \in Procs :
       Rejected(p) =>
          LET err == frame[p].ret.err
          IN /\ err.type = "*CodeErrWithContext"
             /\ GetStatus(err.CodeErr) = 429
             /\ GetCodeErrEntity(err.CodeErr).GrpcCode = "ResourceExhausted"
             /\ GetCode(err.CodeErr) = "ERR429P08"
             /\ \A c \in ErrOK..ErrUserDeletionFailed :
                   IsErrorCode(err, c) <=> c = ErrResourceExhausted

\* a call of the per-method strategy was rejected and has returned its error
C11_Witness ==
    \E p \in Procs :
       /\ Rejected(p)
       /\ config.KeyExtractor = "Method"
       /\ frame[p].ret.err # NilErr

\* the custom message handed to WithMessage, for a ceiling of n
CeilingMessage(n) ==
    "Rate limit exceeded. Maximum " \o Itoa(n)
       \o " requests per second allowed."

\* C12 as stated: the message of the rejection error is "Rate limit exceeded.
\* Maximum <N> requests per second allowed." with N the configured
\* requests-per-second.
C12_MessageAsStated ==
    \A p \in Procs :
       Rejected(p) =>
          Error(frame[p].ret.err) = CeilingMessage(config.RequestsPerSecond)

\* C12: the message of the rejection error is the base message of the code,
\* ": ", and "Rate limit exceeded. Maximum <N> requests per second allowed."
\* with N the configured requests-per-second; for a ceiling of 2 it is
\* "resource exhausted: Rate limit exceeded. Maximum 2 requests per second
\* allowed.".
C12_Message ==
    \A p \in Procs :
       Rejected(p) =>
          /\ Error(frame[p].ret.err) =
                "resource exhausted: "
                   \o CeilingMessage(config.RequestsPerSecond)
          /\ config.RequestsPerSecond = 2 =>
                Error(frame[p].ret.err) =
                   "resource exhausted: Rate limit exceeded. Maximum 2 requests per second allowed."

\* with a ceiling of 2 and a burst of 2, the third call of an instant was
\* rejected and has returned
C12_Witness ==
    \E p \in Procs :
       /\ Rejected(p)
       /\ config.RequestsPerSecond = 2
       /\ \E id \in Limiters :
             /\ Len(history[id].dec) = 3
             /\ ~history[id].dec[3].ok
             /\ SameInstant(history[id].dec, 1, 3)

\* rejections decided so far for method m under key k
Rejections(m, k) ==
    IF limiters[k] = 0 THEN 0
    ELSE LET dec == history[limiters[k]].dec
         IN Cardinality({i \in DOMAIN dec : dec[i].method = m /\ ~dec[i].ok})

\* goroutines between the decision to reject and the metric
Recording(m, k) ==
    {p \in Procs : pc[p] = "Reject" /\ frame[p].method = m /\ frame[p].key = k}

\* C14: the rate_limit_exceeded counter of (method, key) has been incremented
\* once for each rejected call of that method and key that has got to the
\* metric, and by nothing else: with no call in flight its total is the number
\* of rejections.
C14_CounterCountsRejections ==
    \A m \in Methods, k \in Keys :
       exceeded[<<m, k>>] = Rejections(m, k) - Cardinality(Recording(m, k))

\* per-method: two calls of method B were rejected and counted, a call was
\* admitted, and no call is in flight
C14_Witness ==
    /\ exceeded[<<"B", "B">>] = 2
    /\ \E id \in Limiters : Admitted(history[id].dec, 1, Len(history[id].dec)) = 1
    /\ \A p \in Procs : pc[p] \in {"idle", "done"}

\* C17: the registry only grows.  In every step a mapped key keeps its
\* limiter, a limiter keeps its key and its construction, a lookup of a mapped
\* key under the read lock returns the mapped limiter, and the bucket of a
\* limiter changes only by a decision taken on it.
C17_RegistryOnlyGrows ==
    [][/\ \A k \in Keys : limiters[k] # 0 => limiters'[k] = limiters[k]
       /\ Len(heap') >= Len(heap)
       /\ \A id \in Limiters :
             /\ history'[id].key = history[id].key
             /\ history'[id].createdAt = history[id].createdAt
             /\ heap'[id] # heap[id] =>
                   \E p \in Procs : Reserves(p) /\ frame[p].limiter = id
       /\ \A p \in Procs :
             pc[p] = "RLock" /\ pc'[p] = "RUnlock"
                /\ limiters[frame[p].key] # 0 =>
                   frame'[p].limiter = limiters[frame[p].key]]_vars

\* per-method: both keys are mapped, and a caller that found its key under
\* the read lock is about to decide on a bucket that has been drained
C17_Witness ==
    /\ limiters["A"] # 0 /\ limiters["B"] # 0
    /\ \E p \in Procs :
          /\ pc[p] = "Now" /\ frame[p].exists
          /\ frame[p].limiter = limiters[frame[p].key]
          /\ FLess(heap[frame[p].limiter].tokens, FromInt(1))

\* C18: the admission decision never waits.  Whatever the other callers do,
\* and with a clock that never moves, a call that has entered the
\* interceptor gets to its decision, and a rejected one to its return; the
\* step that finds no token is itself the decision to reject, taken at the
\* instant the call read the clock.
C18_NeverWaits ==
    /\ \A p \in Procs : pc[p] = "RLock" ~> frame[p].decided
    /\ \A p \in Procs : pc[p] = "Reject" ~> pc[p] = "done"
    /\ [][\A p \in Procs :
             Reserves(p) =>
                /\ now' = now
                /\ frame'[p].decided
                /\ pc'[p] = IF reserveN(heap[frame[p].limiter], frame[p].t).ok
                            THEN "Handler" ELSE "Reject"]_vars

\* one caller holds the write lock while the other waits for the read lock,
\* and the bucket of some key is drained
C18_Witness ==
    /\ \E p, q \in Procs : pc[p] = "Locked" /\ writer = p /\ pc[q] = "RLock"
    /\ \E id \in Limiters : FLess(heap[id].tokens, FromInt(1))

\* C16: NewRateLimiter replaces a non-positive requests-per-second by 100 and
\* a non-positive burst size by twice the effective requests-per-second, and
\* keeps positive values as given, so both are positive afterwards (nothing
\* positive given: 100 and 200; 5 and no burst: 5 and 10).
C16_Defaults ==
    \A i \in DOMAIN result :
       LET out == result[i]
       IN /\ out.RequestsPerSecond =
                IF args.RequestsPerSecond <= 0 THEN 100
                ELSE args.RequestsPerSecond
          /\ out.BurstSize =
                IF args.BurstSize <= 0 THEN 2 * out.RequestsPerSecond
                ELSE args.BurstSize
          /\ out.RequestsPerSecond > 0 /\ out.BurstSize > 0
          /\ args.RequestsPerSecond <= 0 /\ args.BurstSize <= 0 =>
                out.RequestsPerSecond = 100 /\ out.BurstSize = 200
          /\ args.RequestsPerSecond = 5 /\ args.BurstSize <= 0 =>
                out.RequestsPerSecond = 5 /\ out.BurstSize = 10
          /\ config = out

\* a limiter was constructed from a negative rate and a zero burst
C16_Witness ==
    /\ Len(result) = 1
    /\ args.RequestsPerSecond < 0 /\ args.BurstSize = 0
    /\ result[1].BurstSize = 200

\* C19: ErrorConversionInterceptor returns the handler's response as it is,
\* and for the handler's error: nil for nil; for a CodeErr the status of that
\* code's gRPC code and message; for a *CodeErrWithContext the status of its
\* code's gRPC code with its own message; for any other error the status
\* Internal with the text of the error.
C19_ErrorConversion ==
    \A i \in DOMAIN result :
       LET in  == args
           out == result[i]
       IN /\ out.resp = in.resp
          /\ out.err.type \in {"nil", "*status.Error"}
          /\ in.err = NilErr => out.err = NilErr
          /\ in.err.type = "CodeErr" =>
                /\ out.err.type = "*status.Error"
                /\ out.err.code = GetCodeErrEntity(in.err.CodeErr).GrpcCode
                /\ out.err.message = GetMessage(in.err.CodeErr)
          /\ in.err.type = "*CodeErrWithContext" =>
                /\ out.err.type = "*status.Error"
                /\ out.err.code = GetCodeErrEntity(in.err.CodeErr).GrpcCode
                /\ out.err.message = in.err.message
          /\ in.err.type \notin {"nil", "CodeErr", "*CodeErrWithContext"} =>
                /\ out.err.type = "*status.Error"
                /\ out.err.code = "Internal"
                /\ out.err.message = Error(in.err)

\* a handler returned a response together with a not-found error that has a
\* custom message, and the conversion has returned
C19_Witness ==
    /\ Len(result) = 1
    /\ args.resp = "resp"
    /\ args.err.type = "*CodeErrWithContext"
    /\ args.err.CodeErr = ErrUserNotFound
    /\ args.err.message = "user not found: id 7 failed"
    /\ result[1].err.code = "NotFound"

\* C13: a caller whose call the rate limiter rejected receives from the server
\* a status of the resource-exhausted class (gRPC ResourceExhausted, HTTP 429
\* at the gateway) whose message carries the ceiling.
C13_RejectionAtBoundary ==
    \A p \in Procs :
       Rejected(p) =>
          /\ rpc[p].status.code = "ResourceExhausted"
          /\ HTTPStatusFromCode(rpc[p].status.code) = 429
          /\ rpc[p].status.message =
                "resource exhausted: "
                   \o CeilingMessage(config.RequestsPerSecond)

\* what the caller of a rejected call does receive: the rejection passes
\* through no error conversion, and the server sends it as Unknown
RejectionSentAsUnknown ==
    \A p \in Procs :
       Rejected(p) =>
          /\ rpc[p].out.err = RateLimitError(config)
          /\ rpc[p].status.code = "Unknown"
          /\ HTTPStatusFromCode(rpc[p].status.code) = 500
          /\ rpc[p].status.message =
                "resource exhausted: "
                   \o CeilingMessage(config.RequestsPerSecond)

\* C15: with RateLimitEnabled false the chain has no rate-limit stage: no
\* limiter is ever made, no call is rejected or counted, and every call that
\* has returned has reached the service once and returns no rate-limit error,
\* however many calls arrive at one instant.
C15_DisabledAdmitsAll ==
    ~server.cfg.RateLimitEnabled =>
       /\ ~Installed("RateLimit")
       /\ heap = <<>>
       /\ \A mk \in Methods \X Keys : exceeded[mk] = 0
       /\ \A p \in Procs :
             /\ pc[p] \in {"idle", "Handler", "Record", "Dec", "done"}
             /\ ~frame[p].decided
             /\ pc[p] = "done" =>
                   /\ rpc[p].served = 1
                   /\ ~IsErrorCode(rpc[p].out.err, ErrResourceExhausted)
                   /\ rpc[p].status.code \in {"OK", "Unknown", "Internal"}

\* rate limiting is disabled with a burst of one, MaxServed calls have
\* arrived at one instant, and all of them have been served
C15_Witness ==
    /\ ~server.cfg.RateLimitEnabled
    /\ server.cfg.RateLimitBurstSize = 1
    /\ started = MaxServed /\ now = 0
    /\ \A p \in Procs : pc[p] = "done" /\ rpc[p].served = 1

\* the request identifier of goroutine p's call: the first x-request-id value
\* the caller sent, or else the one generated
RequestIDOf(p) ==
    IF Len(rpc[p].ctx.incoming) > 0 THEN rpc[p].ctx.incoming[1]
    ELSE rpc[p].uuid

\* C20: the request identifier is the first x-request-id value of the incoming
\* metadata if there is one and a generated one otherwise; the rate-limit
\* stage receives a context with it and hands that context on as it is; the
\* service reads it from the context (GetRequestID, logger, outgoing
\* metadata, and the incoming metadata the caller sent or the generated
\* value); and it is the response header of every call, served or rejected.
C20_RequestIDPropagated ==
    Installed("RequestID") =>
       \A p \in Procs :
          pc[p] # "idle" =>
             /\ RequestIDOf(p) # ""
             /\ Len(rpc[p].ctx.incoming) = 0 => rpc[p].uuid \in UUIDs
             /\ GetRequestID(frame[p].ctx) = RequestIDOf(p)
             /\ frame[p].hcalls = 1 => frame[p].harg.ctx = frame[p].ctx
             /\ rpc[p].served = 1 =>
                   /\ GetRequestID(rpc[p].sctx) = RequestIDOf(p)
                   /\ rpc[p].sctx.logger = RequestIDOf(p)
                   /\ rpc[p].sctx.outgoing = <<RequestIDOf(p)>>
                   /\ rpc[p].sctx.incoming =
                         IF Len(rpc[p].ctx.incoming) > 0
                         THEN rpc[p].ctx.incoming
                         ELSE <<RequestIDOf(p)>>
                   /\ rpc[p].sctx.id = rpc[p].ctx.id
             /\ pc[p] = "done" => rpc[p].out.header = <<RequestIDOf(p)>>

\* a call that came with two x-request-id values went through the rate-limit
\* stage and was served, and a call that came with none was rejected
C20_Witness ==
    \E p, q \in Procs :
       /\ pc[p] = "done" /\ frame[p].ok /\ rpc[p].served = 1
       /\ rpc[p].ctx.incoming = <<"r1", "r2">>
       /\ Rejected(q) /\ rpc[q].ctx.incoming = <<>>
       /\ rpc[q].out.header = <<rpc[q].uuid>>

\* a run of stages entered in order, what they wrap, and the stages left in
\* the reverse order
RECURSIVE Nested(_, _)
Nested(stages, innermost) ==
    IF stages = <<>> THEN innermost
    ELSE Around(Head(stages), Nested(Tail(stages), innermost))

\* the stages of a served call, given those outside and those inside the
\* rate limiter, which is among them when rate limiting is enabled
Served(outer, inner) ==
    Nested(outer
              \o (IF server.cfg.RateLimitEnabled THEN <<"RateLimit">>
                  ELSE <<>>)
              \o inner,
           Around("Service", <<>>))

\* C21 as stated: every call enters RequestID, Metrics, RateLimit (when
\* enabled), Logging, ErrorConversion and the service handler in this order
\* and leaves in the reverse order; a call the rate limiter rejects is seen,
\* besides the rate limiter, by RequestID and Metrics only.
C21_OrderAsStated ==
    \A p \in Procs :
       pc[p] = "done" =>
          rpc[p].out.trace =
             IF frame[p].decided /\ ~frame[p].ok
             THEN Nested(<<"RequestID", "Metrics", "RateLimit">>, <<>>)
             ELSE Served(<<"RequestID", "Metrics">>,
                         <<"Logging", "ErrorConversion">>)

\* C21: every call enters the stages its server installs in the order
\* RequestID, Metrics, RateLimit, Logging, ErrorConversion, service handler,
\* and leaves them in the reverse order.  RequestID and Logging are installed
\* by every server, Metrics by main.go and part_013 and not by part_012,
\* RateLimit when enabled in main.go and part_013 and always in part_012,
\* ErrorConversion by part_013 only.  A call the rate limiter rejects is seen,
\* besides the rate limiter, by RequestID and (where installed) Metrics only.
C21_FixedOrder ==
    \A p \in Procs :
       pc[p] = "done" =>
          LET metering   == IF server.main = "part_012" THEN <<>>
                            ELSE <<"Metrics">>
              conversion == IF server.main = "part_013"
                            THEN <<"ErrorConversion">> ELSE <<>>
          IN rpc[p].out.trace =
                IF frame[p].decided /\ ~frame[p].ok
                THEN Nested(<<"RequestID">> \o metering \o <<"RateLimit">>,
                            <<>>)
                ELSE Served(<<"RequestID">> \o metering,
                            <<"Logging">> \o conversion)

\* in one server a call went through all six stages and another was rejected
C21_Witness ==
    \E p, q \in Procs :
       /\ pc[p] = "done" /\ rpc[p].served = 1
       /\ Len(rpc[p].out.trace) = 12
       /\ Rejected(q) /\ Len(rpc[q].out.trace) = 6

\* admissions of limiter id by calls that read the clock within [a, b]
AdmittedWithin(id, a, b) ==
    Cardinality({n \in DOMAIN history[id].dec :
                    /\ history[id].dec[n].ok
                    /\ a <= history[id].dec[n].t
                    /\ history[id].dec[n].t <= b})

\* C22: for every key and every window [a, b], the calls admitted for the key
\* inside the window number at most BurstSize + RequestsPerSecond * (b - a),
\* under any interleaving of the callers.  (The count is whole, so the bound
\* is compared rounded down.)
C22_RateBound ==
    \A id \in Limiters :
       \A a, b \in Instants :
          a <= b =>
             AdmittedWithin(id, a, b) - config.BurstSize
                <= (config.RequestsPerSecond * (b - a)) \div Second

\* C23: a rejected call does not discard refill progress.  A bucket drained
\* by a call at t, the next call on it at t + d1 with d1 < 1/R, and the call
\* after that at t + d1 + d2 with d1 + d2 >= 1/R: the first of the two is
\* rejected and the second is admitted.
C23_RejectionKeepsRefill ==
    \A id \in Limiters :
       LET dec == history[id].dec
           R   == config.RequestsPerSecond
       IN \A i \in DOMAIN dec :
             /\ dec[i].ok /\ dec[i].avail = FromInt(1)
             /\ i + 1 \in DOMAIN dec
             /\ dec[i + 1].t >= dec[i].t
             /\ (dec[i + 1].t - dec[i].t) * R < Second
             => /\ ~dec[i + 1].ok
                /\ /\ i + 2 \in DOMAIN dec
                   /\ dec[i + 2].t >= dec[i + 1].t
                   /\ (dec[i + 2].t - dec[i].t) * R >= Second
                   => dec[i + 2].ok

\* the rate-limit stages of the chain a main has built
RateLimitStages == {i \in DOMAIN server.chain : server.chain[i] = "RateLimit"}

\* C24: with rate limiting enabled exactly one rate-limit stage is installed;
\* it is the per-method limiter when RateLimitStrategy is exactly "per-method"
\* and the global limiter for every other value of the string.
C24_StrategySelection ==
    result /= <<>> /\ args.cfg.RateLimitEnabled
    => /\ Cardinality(RateLimitStages) = 1
       /\ Len(server.limiter) = 1
       /\ server.limiter[1].KeyExtractor =
             IF args.cfg.RateLimitStrategy = "per-method" THEN "Method"
             ELSE "Default"

\* a server built with rate limiting enabled and a string that is neither of
\* the two documented strategies
C24_Witness ==
    /\ result /= <<>>
    /\ args.cfg.RateLimitEnabled
    /\ args.cfg.RateLimitStrategy \notin {"global", "per-method"}
    /\ Cardinality(RateLimitStages) = 1
    /\ config.KeyExtractor = "Default"

\* ---- NewDatabaseWithContext ----

\* the call of NewDatabaseWithContext has ended
Done == database.pc = "done"

\* the attempts made so far all failed
AllFailed == \A i \in DOMAIN database.opens : ~database.opens[i].ok

\* the error that reports n failed attempts, the last with the error err
FailedAfter(n, err) ==
    "failed to connect to database after " \o Itoa(n) \o " attempts: " \o err

\* C25: the connection attempts are numbered 1, 2, ... in order and none is
\* numbered above DatabaseMaxRetries; an attempt that succeeds is the last
\* one; and the call returns the error "failed to connect to database after
\* N attempts" exactly when all DatabaseMaxRetries attempts were made and
\* every one failed.
C25_Attempts ==
    LET opens == database.opens
        n     == database.cfg.DatabaseMaxRetries
    IN /\ \A i \in DOMAIN opens :
             /\ opens[i].attempt = i
             /\ i <= n
             /\ opens[i].ok => i = Len(opens)
       /\ Done =>
             ((opens /= <<>> /\ Len(opens) = n /\ AllFailed)
                <=> /\ database.ret.kind = "return"
                    /\ database.ret.db = "nil"
                    /\ \E e \in Attempts \ {"ok"} :
                          database.ret.err = FailedAfter(n, e))

\* all three attempts of a configuration with three retries have failed and
\* the call has returned the error that counts them
C25_Witness ==
    /\ Done
    /\ Len(database.opens) = 3
    /\ AllFailed
    /\ database.ret.kind = "return"
    /\ database.ret.err = FailedAfter(3, "ping failed")

\* C26: after the failed attempt k, k below DatabaseMaxRetries, a wait of
\* DatabaseRetryDelay * 2^(k-1) seconds is started, and attempt k+1 is made
\* only when it has elapsed; after the failed attempt DatabaseMaxRetries no
\* wait is started.
C26_Backoff ==
    LET opens == database.opens
        waits == database.waits
        n     == database.cfg.DatabaseMaxRetries
    IN /\ \A i \in DOMAIN waits :
             /\ waits[i].after = i
             /\ i < n
             /\ i \in DOMAIN opens /\ ~opens[i].ok
             /\ waits[i].delay = database.cfg.DatabaseRetryDelay * 2^(i - 1)
       /\ \A k \in DOMAIN opens :
             /\ ~opens[k].ok /\ k < n => k \in DOMAIN waits
             /\ k > 1 => waits[k - 1].elapsed

\* three attempts failed with a delay of 2 seconds: the waits were of 2 and
\* of 4 seconds, and none followed the third attempt
C26_Witness ==
    /\ Done
    /\ Len(database.opens) = 3
    /\ AllFailed
    /\ database.cfg.DatabaseRetryDelay = 2
    /\ Len(database.waits) = 2
    /\ database.waits[1].delay = 2
    /\ database.waits[2].delay = 4

\* the context was cancelled at the head of the loop with an attempt still to
\* make, or during a backoff wait
CancelledBetweenAttempts ==
    /\ database.pc /= "none"
    /\ database.cancelledAt /= <<>>
    /\ \/ /\ database.cancelledAt[1] = "for"
          /\ database.cancelledAt[2] <= database.cfg.DatabaseMaxRetries
       \/ database.cancelledAt[1] = "backoff"

\* the attempts that had been made when the context was cancelled
AttemptsAtCancel ==
    IF database.cancelledAt[1] = "for" THEN database.cancelledAt[2] - 1
    ELSE database.cancelledAt[2]

\* the two errors of a cancelled call
CancelledErrors ==
    {"database connection cancelled: ctx.Err",
     "database connection cancelled during retry: ctx.Err"}

\* C27: once the context is cancelled before an attempt begins or during a
\* backoff wait, no further connection attempt is started, and the call
\* returns: a nil db and a "database connection cancelled" error.
C27_Cancelled ==
    /\ [](CancelledBetweenAttempts =>
             /\ database.pc /= "open"
             /\ Len(database.opens) = AttemptsAtCancel
             /\ Done => /\ database.ret.kind = "return"
                        /\ database.ret.db = "nil"
                        /\ database.ret.err \in CancelledErrors)
    /\ (CancelledBetweenAttempts ~> Done)

\* the context was cancelled during the backoff that followed the first
\* attempt, and the call has returned the error of a cancelled retry
C27_Witness ==
    /\ Done
    /\ database.cancelledAt = <<"backoff", 1>>
    /\ Len(database.opens) = 1
    /\ database.ret.err = "database connection cancelled during retry: ctx.Err"

\* C28: the call of NewDatabaseWithContext ends by returning either a
\* connected db with a nil error or a nil db with an error, also when
\* DatabaseMaxRetries <= 0 so that no attempt is made.
C28_DbOrError ==
    Done =>
       /\ database.ret.kind = "return"
       /\ \/ database.ret.db = "db" /\ database.ret.err = "nil"
          \/ database.ret.db = "nil" /\ database.ret.err /= "nil"
       /\ database.ret.db = "db" =>
             database.opens /= <<>>
             /\ database.opens[Len(database.opens)].ok

\* ---- the in-memory UserServer ----

\* C29: no two CreateUser calls that returned have returned the same Id, also
\* when they ran concurrently, and a GetUser made after a CreateUser returned
\* finds, under the Id that call returned, the user that call created.
C29_UniqueIDs ==
    LET created == userServer.created
    IN /\ \A i, j \in DOMAIN created :
             i /= j => created[i].Id /= created[j].Id
       /\ \A k \in DOMAIN userServer.got :
             LET got == userServer.got[k]
             IN \A i \in 1..got.after :
                   created[i].Id = got.id
                   => got.err = "nil" /\ got.user = created[i]

\* ---- MetricsInterceptor ----

\* the calls that are inside MetricsInterceptor: entered, not yet returned
InFlight == {p \in Procs : pc[p] \notin {"idle", "done"}}

\* the calls whose grpc_requests_total series has been incremented and whose
\* deferred Dec has not yet run
Recorded == {p \in Procs : pc[p] = "Dec"}

\* C30: with MetricsInterceptor in the chain, grpc_active_connections equals
\* the number of calls that are inside the interceptor, so it is never
\* negative and is 0 when no call is in flight, and grpc_requests_total has
\* been incremented exactly once for every call that has returned, and for
\* those about to return, whether they were admitted, rejected by the rate
\* limiter or failed in the handler.
C30_Metrics ==
    Installed("Metrics")
    => /\ metrics.active = Cardinality(InFlight)
       /\ metrics.active >= 0
       /\ InFlight = {} => metrics.active = 0
       /\ metrics.total =
             (started - Cardinality(InFlight)) + Cardinality(Recorded)

\* MaxServed calls have returned, one of them rejected by the rate limiter
\* and one with an error of its handler, and the gauge is back at 0
C30_Witness ==
    /\ Installed("Metrics")
    /\ InFlight = {}
    /\ metrics = [active |-> 0, total |-> MaxServed]
    /\ \E p \in Procs : rpc[p].served = 0 /\ rpc[p].out.err /= NilErr
    /\ \E p \in Procs : rpc[p].served = 1 /\ rpc[p].out.err /= NilErr
====
